---- MODULE Spec2Model ----
(***************************************************************************)
(* Telemetry pipeline of PurpleSectorRacing: the .ibt container decoder    *)
(* (header, variable descriptor table, sample reader), the lap boundary    *)
(* scan of processIbtFile, the per-file main loop of the processing        *)
(* script, the session text and file name parsers, the statistics helpers  *)
(* (median, standard deviation, consistency score, outlier filter), the    *)
(* lap-time formatter, the aggregation of the sessions by date and car     *)
(* and by car, and the sorted arrays of the output.                        *)
(*                                                                         *)
(* Number representation.  A JavaScript number is modelled as an integer   *)
(* count of ticks, TicksPerSecond ticks to the unit: an Int32 read of n    *)
(* is the number n*TicksPerSecond, a Float32 word w is the number of w     *)
(* ticks (fixed point standing for IEEE-754), the word 0x7FC00000 is NaN.  *)
(* null, NaN and the infinities are the records below.  Where the          *)
(* rounding of the doubles decides an outcome (a lap exactly at the        *)
(* outlier bound, a score exactly half-way between two integers) the       *)
(* arithmetic is done on IEEE-754 doubles, with t ticks standing for the   *)
(* double nearest to t / TicksPerSecond.                                   *)
(*                                                                         *)
(* Specifications.  Spec: one file through decoder and scan.  RunSpec:     *)
(* the main loop over the files.  AggSpec: the main loop with the outcome  *)
(* of processIbtFile chosen per file, then the fold, the two stats passes   *)
(* and the output.  StatSpec: one call of a statistics helper.             *)
(* FormatSpec: one call of formatLapTime, on times given in steps of       *)
(* 0.0001 s among others.                                                  *)
(***************************************************************************)
EXTENDS Integers, Sequences, FiniteSets, TLC

\* ------------------------------------------------------------------ bounds
TicksPerSecond == 10
MaxFiles == 3
MaxSamples == 3
MaxSafeIndex == 8
MaxLaps == 3

\* ------------------------------------------------------- program constants
VAR_HEADER_SIZE == 144
NameFieldStart == 16
NameFieldEnd == 48
MaxValidLapSeconds == 600
BufLenFieldPos == 36
BufOffsetFieldPos == 52

\* ------------------------------------------------------- JavaScript values
\* Every JavaScript value is a record: a number carries its ticks in v.
Num(n) == [t |-> "num", v |-> n]
Null == [t |-> "null", v |-> 0]
NaN == [t |-> "nan", v |-> 0]
Infinity == [t |-> "inf", v |-> 0]
NegInfinity == [t |-> "ninf", v |-> 0]
Threw == [t |-> "threw", v |-> 0]

\* a !== b on numbers, null and NaN
StrictNeq(a, b) ==
    IF a.t = "nan" \/ b.t = "nan" THEN TRUE ELSE a /= b

\* ToNumber as applied by the relational operators
ToNumber(x) == IF x.t = "null" THEN Num(0) ELSE x

\* a < b after ToNumber; every comparison with NaN is false
JsLess(a, b) ==
    LET x == ToNumber(a)
        y == ToNumber(b)
    IN  IF x.t = "nan" \/ y.t = "nan" THEN FALSE
        ELSE IF x.t = "inf" \/ y.t = "ninf" THEN FALSE
        ELSE IF y.t = "inf" \/ x.t = "ninf" THEN TRUE
        ELSE x.v < y.v

JsGreater(a, b) == JsLess(b, a)

\* a >= b is false when an operand is NaN, otherwise not (a < b)
JsGeq(a, b) ==
    IF ToNumber(a).t = "nan" \/ ToNumber(b).t = "nan" THEN FALSE
    ELSE ~JsLess(a, b)

\* truthiness of a value used as a condition
Truthy(x) == ~(x.t = "null" \/ x.t = "nan" \/ (x.t = "num" /\ x.v = 0))

\* ------------------------------------------------------ Double arithmetic
\* Where the outcome of a comparison hangs on the rounding of a double, the
\* double is computed digit by digit.  A natural number is the sequence of
\* its binary digits, least significant first (for sums and products: of its
\* digits to the base LimbBase); a positive double is m * 2^e with m odd and
\* of at most MantissaBits binary digits (exponent range and subnormals play
\* no part for the magnitudes met here).  The number of t ticks stands for
\* the double nearest to t / TicksPerSecond.
MantissaBits == 53
LimbBits == 15
LimbBase == 2^LimbBits

RECURSIVE BitsOf(_)
BitsOf(n) == IF n = 0 THEN <<>> ELSE <<n % 2>> \o BitsOf(n \div 2)

\* the k low binary digits of n
LowBits(n, k) == <<>> \o [i \in 1..k |-> (n \div 2^(i - 1)) % 2]

Bit(a, i) == IF i >= 1 /\ i <= Len(a) THEN a[i] ELSE 0

\* without the zeros at the high end
Strip(a) ==
    LET ones == {i \in 1..Len(a) : a[i] /= 0}
    IN  IF ones = {} THEN <<>>
        ELSE SubSeq(a, 1, CHOOSE i \in ones : \A j \in ones : i >= j)

Zeros(k) == <<>> \o [i \in 1..k |-> 0]

\* the integer a sequence of at most 30 binary digits stands for
RECURSIVE IntOf(_)
IntOf(a) == IF a = <<>> THEN 0 ELSE a[1] + 2 * IntOf(Tail(a))

\* binary digits to limbs and back
Limbs(a) ==
    <<>> \o [j \in 1..((Len(a) + LimbBits - 1) \div LimbBits) |->
                IntOf(SubSeq(a, (j - 1) * LimbBits + 1,
                             IF j * LimbBits < Len(a) THEN j * LimbBits ELSE Len(a)))]

Bits(l) ==
    Strip(<<>> \o [i \in 1..(Len(l) * LimbBits) |->
                      (l[(i - 1) \div LimbBits + 1] \div 2^((i - 1) % LimbBits)) % 2])

RECURSIVE AddFrom(_, _, _, _)
AddFrom(a, b, i, carry) ==
    IF i > Len(a) /\ i > Len(b) THEN (IF carry = 1 THEN <<1>> ELSE <<>>)
    ELSE LET s == Bit(a, i) + Bit(b, i) + carry
         IN  <<s % LimbBase>> \o AddFrom(a, b, i + 1, s \div LimbBase)

\* a - b for a >= b
RECURSIVE SubFrom(_, _, _, _)
SubFrom(a, b, i, borrow) ==
    IF i > Len(a) THEN <<>>
    ELSE LET d == Bit(a, i) - Bit(b, i) - borrow
         IN  <<d % LimbBase>> \o SubFrom(a, b, i + 1, IF d < 0 THEN 1 ELSE 0)

\* a times one limb
RECURSIVE ScaleFrom(_, _, _, _)
ScaleFrom(a, k, i, carry) ==
    IF i > Len(a) THEN (IF carry > 0 THEN <<carry>> ELSE <<>>)
    ELSE LET p == a[i] * k + carry
         IN  <<p % LimbBase>> \o ScaleFrom(a, k, i + 1, p \div LimbBase)

RECURSIVE MulFrom(_, _, _)
MulFrom(a, b, i) ==
    IF i > Len(a) THEN <<>>
    ELSE AddFrom(ScaleFrom(b, a[i], 1, 0), <<0>> \o MulFrom(a, b, i + 1), 1, 0)

\* sum, difference (a >= b) and product of naturals given in binary digits
BigAdd(a, b) == Bits(AddFrom(Limbs(a), Limbs(b), 1, 0))
BigSub(a, b) == Bits(SubFrom(Limbs(a), Limbs(b), 1, 0))
BigMul(a, b) == Bits(MulFrom(Limbs(a), Limbs(b), 1))

BigLeq(a, b) ==
    LET x == Strip(a)
        y == Strip(b)
        diff == {i \in 1..Len(x) : Len(x) = Len(y) /\ x[i] /= y[i]}
    IN  IF Len(x) /= Len(y) THEN Len(x) < Len(y)
        ELSE IF diff = {} THEN TRUE
        ELSE x[CHOOSE i \in diff : \A j \in diff : i >= j] = 0

FlZero == [m |-> <<>>, e |-> 0]

\* m * 2^e with the zeros at the low end of m moved into e
Canon(m, e) ==
    LET ones == {i \in 1..Len(m) : m[i] = 1}
    IN  IF ones = {} THEN FlZero
        ELSE LET lo == CHOOSE i \in ones : \A j \in ones : i <= j
                 hi == CHOOSE i \in ones : \A j \in ones : i >= j
             IN  [m |-> SubSeq(m, lo, hi), e |-> e + lo - 1]

\* round to nearest, ties to even: the double nearest to m * 2^e
Round(m, e) ==
    LET x == Strip(m)
        d == Len(x) - MantissaBits
    IN  IF d <= 0 THEN Canon(x, e)
        ELSE LET kept == SubSeq(x, d + 1, Len(x))
                 half == x[d] = 1
                 below == \E i \in 1..(d - 1) : x[i] = 1
                 up == half /\ (below \/ kept[1] = 1)
             IN  Canon(IF up THEN BigAdd(kept, <<1>>) ELSE kept, e + d)

\* the binary digits of r / q after the point, eight at a step for k steps,
\* and the remainder (q < 2^23)
RECURSIVE DivSteps(_, _, _, _)
DivSteps(r, q, k, acc) ==
    IF k = 0 THEN [digits |-> acc, rem |-> r]
    ELSE DivSteps((256 * r) % q, q, k - 1, LowBits((256 * r) \div q, 8) \o acc)

\* the double nearest to p / q, for integers p >= 0 and q > 0
FlDiv(p, q) ==
    LET k == (MantissaBits + 10 + Len(BitsOf(q))) \div 8
        d == DivSteps(p % q, q, k, <<>>)
        whole == d.digits \o BitsOf(p \div q)
    IN  IF d.rem = 0 THEN Round(whole, -8 * k)
        ELSE Round(<<1>> \o whole, -8 * k - 1)

FlInt(n) == Canon(BitsOf(n), 0)

FlMul(x, y) == Round(BigMul(x.m, y.m), x.e + y.e)

\* the two mantissas over the smaller exponent
Aligned(x, y) ==
    LET e == IF x.e < y.e THEN x.e ELSE y.e
    IN  [a |-> Zeros(x.e - e) \o x.m, b |-> Zeros(y.e - e) \o y.m, e |-> e]

FlAdd(x, y) == LET z == Aligned(x, y) IN Round(BigAdd(z.a, z.b), z.e)

FlLeq(x, y) == LET z == Aligned(x, y) IN BigLeq(z.a, z.b)

\* x - y for x >= y
FlSub(x, y) == LET z == Aligned(x, y) IN Round(BigSub(z.a, z.b), z.e)

\* the fraction dropped
MathRound_Floor(x) ==
    LET twice == IF x.e + 1 >= 0 THEN IntOf(Zeros(x.e + 1) \o x.m)
                 ELSE IntOf(SubSeq(x.m, -x.e, Len(x.m)))
    IN  twice \div 2

\* Math.round of a double x >= 0: floor(x + 1/2), as an integer
MathRound(x) ==
    LET twice == IF x.e + 1 >= 0 THEN IntOf(Zeros(x.e + 1) \o x.m)
                 ELSE IntOf(SubSeq(x.m, -x.e, Len(x.m)))
    IN  (twice + 1) \div 2

\* the double a number of ticks stands for
ToDouble(ticks) == FlDiv(ticks, TicksPerSecond)

\* ------------------------------------------------------------ Buffer reads
\* A buffer is a sequence of bytes; the byte at offset p is buf[p + 1].
InRange(buf, pos, width) == pos >= 0 /\ pos + width <= Len(buf)

WordAt(buf, pos) ==
    LET b0 == buf[pos + 1]
        b1 == buf[pos + 2]
        b2 == buf[pos + 3]
        b3 == buf[pos + 4]
        hi == IF b3 >= 128 THEN b3 - 256 ELSE b3
    IN  hi * 16777216 + b2 * 65536 + b1 * 256 + b0

\* buffer.readInt32LE(pos): the integer, or a throw.  Offsets, lengths,
\* counts and type tags stay plain integers; a channel value is turned
\* into ticks by readVar.
ReadInt32LE(buf, pos) ==
    IF InRange(buf, pos, 4) THEN Num(WordAt(buf, pos)) ELSE Threw

NaNWord == 2143289344

FloatFromWord(w) == IF w = NaNWord THEN NaN ELSE Num(w)

ReadFloatLE(buf, pos) ==
    IF InRange(buf, pos, 4) THEN FloatFromWord(WordAt(buf, pos)) ELSE Threw

\* the high word carries sign, exponent and leading mantissa; the low word
\* only mantissa bits below the resolution of the model
ReadDoubleLE(buf, pos) ==
    IF InRange(buf, pos, 8) THEN FloatFromWord(WordAt(buf, pos + 4)) ELSE Threw

\* buffer[k] !== 0: outside the buffer the element is undefined, not 0
ByteNonZero(buf, k) ==
    IF k >= 0 /\ k < Len(buf) THEN buf[k + 1] /= 0 ELSE TRUE

\* an index argument of slice: negative counts from the end, then clamped
SliceIndex(buf, a) ==
    IF a < 0 THEN (IF Len(buf) + a < 0 THEN 0 ELSE Len(buf) + a)
    ELSE IF a > Len(buf) THEN Len(buf) ELSE a

\* buffer.slice(a, b): never throws
Slice(buf, a, b) ==
    LET lo == SliceIndex(buf, a)
        hi == SliceIndex(buf, b)
    IN  IF hi <= lo THEN <<>> ELSE SubSeq(buf, lo + 1, hi)

\* --------------------------------------------------------- Container decode
\* parseIbtHeader: seven reads, the last one at offset 36
parseIbtHeader(buf) ==
    IF \E pos \in {0, 8, 16, 20, 24, 28, BufLenFieldPos} : ~InRange(buf, pos, 4)
    THEN Threw
    ELSE [t |-> "header",
          version |-> ReadInt32LE(buf, 0).v,
          tickRate |-> ReadInt32LE(buf, 8).v,
          sessionInfoLen |-> ReadInt32LE(buf, 16).v,
          sessionInfoOffset |-> ReadInt32LE(buf, 20).v,
          numVars |-> ReadInt32LE(buf, 24).v,
          varHeaderOffset |-> ReadInt32LE(buf, 28).v,
          bufLen |-> ReadInt32LE(buf, BufLenFieldPos).v]

\* the loop runs to the end of the name field whatever the bytes are
NameEnd_IgnoresNul(buf, pos) == pos + NameFieldEnd

\* the while loop over the name field of the slot at pos
NameEnd(buf, pos) ==
    LET stops == {k \in (pos + NameFieldStart)..(pos + NameFieldEnd - 1) :
                     ~ByteNonZero(buf, k)}
    IN  IF stops = {} THEN pos + NameFieldEnd
        ELSE CHOOSE k \in stops : \A j \in stops : k <= j

ParseSlot(buf, pos) ==
    [name |-> Slice(buf, pos + NameFieldStart, NameEnd(buf, pos)),
     type |-> ReadInt32LE(buf, pos).v,
     dataOffset |-> ReadInt32LE(buf, pos + 4).v]

\* parseVarHeaders: the slots in table order, or a throw of one of the reads
parseVarHeaders(buf, numVars, offset) ==
    LET n == IF numVars < 0 THEN 0 ELSE numVars
        SlotPos(i) == offset + i * VAR_HEADER_SIZE
    IN  IF \E i \in 0..(n - 1) : ~InRange(buf, SlotPos(i), 8)
        THEN Threw
        ELSE [t |-> "vars",
              list |-> <<>> \o [i \in 1..n |-> ParseSlot(buf, SlotPos(i - 1))]]

\* the channel names looked up, as bytes
NameLap == <<76, 97, 112>>
NameLapLastLapTime == <<76, 97, 112, 76, 97, 115, 116, 76, 97, 112, 84, 105, 109, 101>>
NameLapBestLapTime == <<76, 97, 112, 66, 101, 115, 116, 76, 97, 112, 84, 105, 109, 101>>

Undefined == [name |-> <<>>, type |-> -1, dataOffset |-> 0, found |-> FALSE]

\* vars.find(v => v.name === name): the first match, or undefined
Find(list, name) ==
    LET hits == {i \in 1..Len(list) : list[i].name = name}
    IN  IF hits = {} THEN Undefined
        ELSE LET i == CHOOSE k \in hits : \A j \in hits : k <= j
             IN  [name |-> list[i].name, type |-> list[i].type,
                  dataOffset |-> list[i].dataOffset, found |-> TRUE]

\* width in bytes of the read readVar issues for a type tag (0: no read)
ReadWidth(type) ==
    IF type = 2 \/ type = 4 THEN 4 ELSE IF type = 5 THEN 8 ELSE 0

\* readVar: Int32, Float32 and Float64 are decoded, any other tag is null
readVar(buf, varInfo, sampleOffset) ==
    LET pos == sampleOffset + varInfo.dataOffset
    IN  IF varInfo.type = 2 THEN
            (IF InRange(buf, pos, 4)
             THEN Num(ReadInt32LE(buf, pos).v * TicksPerSecond) ELSE Threw)
        ELSE IF varInfo.type = 4 THEN ReadFloatLE(buf, pos)
        ELSE IF varInfo.type = 5 THEN ReadDoubleLE(buf, pos)
        ELSE Null

\* ------------------------------------------------------------ Text decoding
\* A text is the sequence of the codes of its characters (toString('utf8')
\* of ASCII bytes leaves every code as it is).
\* "TrackDisplayName:"
KeyTrackDisplayName ==
    <<84, 114, 97, 99, 107, 68, 105, 115, 112, 108, 97, 121, 78, 97, 109,
      101, 58>>

\* "TrackDisplayShortName:"
KeyTrackDisplayShortName ==
    <<84, 114, 97, 99, 107, 68, 105, 115, 112, 108, 97, 121, 83, 104, 111,
      114, 116, 78, 97, 109, 101, 58>>

\* "CarScreenName:"
KeyCarScreenName ==
    <<67, 97, 114, 83, 99, 114, 101, 101, 110, 78, 97, 109, 101, 58>>

\* "UserName:"
KeyUserName ==
    <<85, 115, 101, 114, 78, 97, 109, 101, 58>>

\* "TrackPrecipitation:"
KeyTrackPrecipitation ==
    <<84, 114, 97, 99, 107, 80, 114, 101, 99, 105, 112, 105, 116, 97, 116,
      105, 111, 110, 58>>

\* "TrackSkies:"
KeyTrackSkies ==
    <<84, 114, 97, 99, 107, 83, 107, 105, 101, 115, 58>>

\* "Unknown"
Unknown ==
    <<85, 110, 107, 110, 111, 119, 110>>

\* ".ibt"
IbtSuffix ==
    <<46, 105, 98, 116>>

\* \s of a regular expression, on ASCII
SpaceCodes == {9, 10, 11, 12, 13, 32}
IsSpace(c) == c \in SpaceCodes

\* \d
DigitCodes == 48..57
IsDigit(c) == c \in DigitCodes

\* the characters . does not match, and those of s it matches
IsLineTerminator(c) == c \in {10, 13}
DotCodes(s) == {s[k] : k \in 1..Len(s)} \ {10, 13}

\* .replace(/\0/g, '')
StripNul(s) == SelectSeq(s, LAMBDA c : c /= 0)

\* the literal key stands in s at index i
KeyAt(s, i, key) ==
    /\ i + Len(key) - 1 <= Len(s)
    /\ SubSeq(s, i, i + Len(key) - 1) = key

\* the first index from j on that holds no character of the class, or Len + 1
RunEnd(s, j, class) ==
    LET stops == {k \in j..Len(s) : s[k] \notin class}
    IN  IF stops = {} THEN (IF j > Len(s) THEN j ELSE Len(s) + 1)
        ELSE CHOOSE k \in stops : \A m \in stops : k <= m

Min(S) == CHOOSE x \in S : \A y \in S : x <= y
Max(S) == CHOOSE x \in S : \A y \in S : x >= y

\* where (\d+) starts for a match of /key\s*(\d+)/ at i: 0 when none
DigitsStart(s, i, key) ==
    IF ~KeyAt(s, i, key) THEN 0
    ELSE LET j == RunEnd(s, i + Len(key), SpaceCodes)
         IN  IF j <= Len(s) /\ IsDigit(s[j]) THEN j ELSE 0

\* where (.+) starts for a match of /key\s*(.+)/ at i: 0 when none.  \s* is
\* greedy and gives characters back until . finds one it matches.
RestStart(s, i, key) ==
    IF ~KeyAt(s, i, key) THEN 0
    ELSE LET p == i + Len(key)
             w == RunEnd(s, p, SpaceCodes)
             starts == {q \in p..w : q <= Len(s) /\ ~IsLineTerminator(s[q])}
         IN  IF starts = {} THEN 0 ELSE Max(starts)

\* string.trim()
Trim(s) ==
    LET keep == {k \in 1..Len(s) : ~IsSpace(s[k])}
    IN  IF keep = {} THEN <<>> ELSE SubSeq(s, Min(keep), Max(keep))

\* parseInt(digits, 10) of a run of digits
RECURSIVE ParseInt(_)
ParseInt(digits) ==
    IF digits = <<>> THEN 0
    ELSE 10 * ParseInt(SubSeq(digits, 1, Len(digits) - 1))
         + (digits[Len(digits)] - 48)

\* yaml.match(/key\s*(.+)/): the trimmed capture of the first match, or the
\* default when there is none
TextField(yaml, key) ==
    LET hits == {i \in 1..Len(yaml) : RestStart(yaml, i, key) > 0}
    IN  IF hits = {} THEN Unknown
        ELSE LET q == RestStart(yaml, Min(hits), key)
             IN  Trim(SubSeq(yaml, q, RunEnd(yaml, q, DotCodes(yaml)) - 1))

\* yaml.match(/TrackPrecipitation:\s*(\d+)/) and parseInt, or 0
Precipitation(yaml) ==
    LET hits == {i \in 1..Len(yaml) : DigitsStart(yaml, i, KeyTrackPrecipitation) > 0}
    IN  IF hits = {} THEN 0
        ELSE LET j == DigitsStart(yaml, Min(hits), KeyTrackPrecipitation)
             IN  ParseInt(SubSeq(yaml, j, RunEnd(yaml, j, DigitCodes) - 1))

\* isWet: precipitation > 0
IsWet(precipitation) == precipitation > 0

extractSessionInfo(buf, offset, len) ==
    LET yaml == StripNul(Slice(buf, offset, offset + len))
        precipitation == Precipitation(yaml)
    IN  [track |-> TextField(yaml, KeyTrackDisplayName),
         trackShort |-> TextField(yaml, KeyTrackDisplayShortName),
         car |-> TextField(yaml, KeyCarScreenName),
         driver |-> TextField(yaml, KeyUserName),
         precipitation |-> precipitation,
         skies |-> TextField(yaml, KeyTrackSkies),
         isWet |-> IsWet(precipitation)]

\* the date of /(\d{4}-\d{2}-\d{2})\s+(\d{2}-\d{2}-\d{2})\.ibt$/ starts at i
\* and the time at j
DateTimeAt(name, i, j) ==
    /\ i >= 1
    /\ j + 11 = Len(name)
    /\ SubSeq(name, j + 8, j + 11) = IbtSuffix
    /\ \A k \in {0, 1, 3, 4, 6, 7} : IsDigit(name[j + k])
    /\ name[j + 2] = 45 /\ name[j + 5] = 45
    /\ i + 10 < j
    /\ \A k \in (i + 10)..(j - 1) : IsSpace(name[k])
    /\ \A k \in {0, 1, 2, 3, 5, 6, 8, 9} : IsDigit(name[i + k])
    /\ name[i + 4] = 45 /\ name[i + 7] = 45

NoDate == <<>>

\* parseDateFromFilename(filename)?.date: undefined (here the empty text,
\* falsy as well) when the name does not match
parseDateFromFilename(name) ==
    LET j == Len(name) - 11
        hits == {i \in 1..(j - 11) : DateTimeAt(name, i, j)}
    IN  IF j < 12 \/ hits = {} THEN NoDate
        ELSE SubSeq(name, Min(hits), Min(hits) + 9)

\* ------------------------------------------------------ Statistics helpers
\* Lap-time lists are sequences of numbers.
OUTLIER_THRESHOLD == FlDiv(15, 100)
EXCLUDE_WET_SESSIONS == TRUE
FullScore == 100

\* half of an odd number of ticks
Half(n) == [t |-> "half", v |-> n]

\* (a + b) / 2
Mean2(a, b) == IF (a.v + b.v) % 2 = 0 THEN Num((a.v + b.v) \div 2) ELSE Half(a.v + b.v)

\* x put behind the elements of the ascending list that are not larger
InsertAsc(x, sorted) ==
    LET k == Cardinality({i \in 1..Len(sorted) : sorted[i].v <= x.v})
    IN  SubSeq(sorted, 1, k) \o <<x>> \o SubSeq(sorted, k + 1, Len(sorted))

\* [...values].sort((a, b) => a - b)
RECURSIVE SortAsc(_)
SortAsc(values) ==
    IF values = <<>> THEN <<>>
    ELSE InsertAsc(values[Len(values)], SortAsc(SubSeq(values, 1, Len(values) - 1)))

\* the upper middle element taken for a list of even length
calculateMedian_UpperMiddle(values) ==
    IF Len(values) = 0 THEN Null
    ELSE SortAsc(values)[Len(values) \div 2 + 1]

calculateMedian(values) ==
    IF Len(values) = 0 THEN Null
    ELSE LET sorted == SortAsc(values)
             mid == Len(sorted) \div 2
         IN  IF Len(sorted) % 2 /= 0 THEN sorted[mid + 1]
             ELSE Mean2(sorted[mid], sorted[mid + 1])

\* values.reduce((a, b) => a + b, 0), in ticks
RECURSIVE SumTicks(_)
SumTicks(values) ==
    IF values = <<>> THEN 0 ELSE values[1].v + SumTicks(Tail(values))

\* the squared deviations from the mean, summed: with n values of sum S the
\* deviation of v is (n * v - S) / n, and the sum of the squares of the
\* numerators is n * Radicand
RECURSIVE SquareSum(_, _, _)
SquareSum(values, n, sum) ==
    IF values = <<>> THEN 0
    ELSE (n * values[1].v - sum) * (n * values[1].v - sum)
         + SquareSum(Tail(values), n, sum)

Radicand(values) ==
    SquareSum(values, Len(values), SumTicks(values)) \div Len(values)

\* the largest r between lo and hi with r * r <= n
RECURSIVE RootBetween(_, _, _)
RootBetween(n, lo, hi) ==
    IF lo >= hi THEN lo
    ELSE LET mid == (lo + hi + 1) \div 2
         IN  IF mid * mid <= n THEN RootBetween(n, mid, hi)
             ELSE RootBetween(n, lo, mid - 1)

ISqrt(n) == RootBetween(n, 0, 46340)

\* squareDiffs.reduce(...) / values.length, as a fraction of square ticks
Variance(values) ==
    [num |-> Radicand(values), den |-> Len(values) * Len(values)]

\* a square root: sqrt(radicand) / over ticks
Root(radicand, over) == [t |-> "root", v |-> <<radicand, over>>]

\* Math.sqrt of the variance: the root of the numerator over the root of
\* the denominator, which is n
calculateStdDev(values) ==
    IF Len(values) < 2 THEN Null
    ELSE LET var == Variance(values)
         IN  IF var.num = 0 THEN Num(0) ELSE Root(var.num, ISqrt(var.den))

\* floor(x * x / 1000000) without a product above 2^31
SquareOverMillion(x) ==
    LET a == x \div 1000
        b == x % 1000
    IN  a * a + (2 * a * b + (b * b) \div 1000) \div 1000

\* Math.round(max(0, min(100, 100 * (1 - cv * 5)))) for cv = sqrt(radicand) / sum
\* with an irrational root: the value lies off every half by more than the
\* rounding of the doubles, so the real number decides
ScoreOfIrrational(radicand, sum) ==
    LET fits == {k \in 0..FullScore :
                    radicand <= SquareOverMillion((2 * FullScore + 1 - 2 * k) * sum)}
    IN  IF fits = {} THEN 0 ELSE Max(fits)

\* the same for cv = p / q, in doubles
ScoreOfRatio(p, q) ==
    LET cv == FlDiv(p, q)
        cv5 == FlMul(cv, FlInt(5))
    IN  IF FlLeq(FlInt(1), cv5) THEN 0
        ELSE MathRound(FlMul(FlInt(FullScore), FlSub(FlInt(1), cv5)))

\* a single lap given the full score
calculateConsistencyScore_SingleLapFull(values) ==
    IF Len(values) = 0 THEN Null
    ELSE IF Len(values) = 1 THEN Num(FullScore * TicksPerSecond)
    ELSE LET sum == SumTicks(values)
             stdDev == calculateStdDev(values)
         IN  IF ~Truthy(stdDev) \/ sum = 0 THEN Num(FullScore * TicksPerSecond)
             ELSE LET radicand == stdDev.v[1]
                      root == ISqrt(radicand)
                  IN  IF root * root = radicand
                      THEN Num(ScoreOfRatio(root, sum) * TicksPerSecond)
                      ELSE Num(ScoreOfIrrational(radicand, sum) * TicksPerSecond)

\* stdDev / mean is sqrt(radicand) / n over sum / n
calculateConsistencyScore(values) ==
    IF Len(values) < 2 THEN Null
    ELSE LET sum == SumTicks(values)
             stdDev == calculateStdDev(values)
         IN  IF ~Truthy(stdDev) \/ sum = 0 THEN Num(FullScore * TicksPerSecond)
             ELSE LET radicand == stdDev.v[1]
                      root == ISqrt(radicand)
                  IN  IF root * root = radicand
                      THEN Num(ScoreOfRatio(root, sum) * TicksPerSecond)
                      ELSE Num(ScoreOfIrrational(radicand, sum) * TicksPerSecond)

\* bestTime * (1 + OUTLIER_THRESHOLD)
Threshold(bestTime) ==
    FlMul(ToDouble(bestTime.v), FlAdd(FlInt(1), OUTLIER_THRESHOLD))

\* time <= threshold.  When time and 1.15 * bestTime differ as real numbers
\* they differ by far more than the rounding of the doubles, and the real
\* numbers decide; when they are equal the doubles decide.
WithinThreshold(time, bestTime) ==
    IF bestTime.t = "inf" THEN TRUE
    ELSE IF 20 * time.v /= 23 * bestTime.v THEN 20 * time.v < 23 * bestTime.v
    ELSE FlLeq(ToDouble(time.v), Threshold(bestTime))

filterOutlierLaps(lapTimes, bestTime) ==
    IF Len(lapTimes) = 0 \/ ~Truthy(bestTime) THEN lapTimes
    ELSE SelectSeq(lapTimes, LAMBDA time : WithinThreshold(time, bestTime))

\* ------------------------------------------------------ Lap-time formatter
\* A text is the sequence of its character codes.  Besides the numbers in
\* ticks the formatter is given numbers on a finer grid: Fine(k) is k steps
\* of 1 / StepsPerSecond seconds.
StepsPerSecond == 10^4
MaxFormatSeconds == 600
CodeZero == 48
CodeColon == 58
CodePoint == 46

Fine(k) == [t |-> "fine", v |-> k]

Str(codes) == [t |-> "str", v |-> codes]

\* how many of its units make a second
UnitOf(x) ==
    IF x.t = "fine" THEN StepsPerSecond
    ELSE IF x.t = "half" THEN 2 * TicksPerSecond ELSE TicksPerSecond

\* the double a number x >= 0 stands for
DoubleOf(x) == FlDiv(x.v, UnitOf(x))

\* !seconds || seconds <= 0 || seconds > 600
Unavailable(seconds) ==
    \/ seconds.t \notin {"num", "fine", "half"}
    \/ seconds.v <= 0
    \/ seconds.v > MaxFormatSeconds * UnitOf(seconds)

\* Math.floor(seconds / 60).  A value of the grid that is not a whole
\* number of minutes is at least one unit away from one, far more than
\* the rounding of the quotient, so the quotient of the integers decides.
Minutes(seconds) == seconds.v \div (60 * UnitOf(seconds))

\* seconds % 60: the remainder of doubles is exact
Remainder(seconds) == FlSub(DoubleOf(seconds), FlInt(60 * Minutes(seconds)))

\* the decimal digits of n >= 0
RECURSIVE Decimal(_)
Decimal(n) ==
    IF n < 10 THEN <<CodeZero + n>>
    ELSE Append(Decimal(n \div 10), CodeZero + (n % 10))

\* the integer n with n / 1000 nearest to the double x, the larger one of
\* two that are equally near: floor(1000 x + 1/2) on the exact value of x
Thousandths(x) == MathRound([m |-> BigMul(x.m, BitsOf(1000)), e |-> x.e])

\* x.toFixed(3) for a double 0 <= x < 10^21
ToFixed3(x) ==
    LET n == Thousandths(x)
        frac == Decimal(1000 + (n % 1000))
    IN  Decimal(n \div 1000) \o <<CodePoint>> \o SubSeq(frac, 2, 4)

\* padding left out
PadStart_None(s, width, code) == s

\* s.padStart(width, c)
PadStart(s, width, code) ==
    IF Len(s) >= width THEN s
    ELSE [i \in 1..(width - Len(s)) |-> code] \o s

formatLapTime(seconds) ==
    IF Unavailable(seconds) THEN Null
    ELSE LET mins == Minutes(seconds)
             secs == ToFixed3(Remainder(seconds))
         IN  Str(Decimal(mins) \o <<CodeColon>> \o PadStart(secs, 6, CodeZero))

\* ------------------------------------------------------- Input containers
\* A container on disk is described by the values of its header fields,
\* its descriptor slots and its samples (each a sequence of 32-bit words);
\* FileImage lays them out as bytes: header, descriptor table, session
\* text, samples.  cut bytes are missing from the end of the file.
HeaderSize == 56

LEByte(w, n) ==
    LET d == IF n = 0 THEN 1 ELSE IF n = 1 THEN 256
             ELSE IF n = 2 THEN 65536 ELSE 16777216
    IN  (w \div d) % 256

HeaderWord(p, j) ==
    IF j = 0 THEN 2
    ELSE IF j = 1 THEN 1
    ELSE IF j = 2 THEN 60
    ELSE IF j = 4 THEN Len(p.info)
    ELSE IF j = 5 THEN HeaderSize + VAR_HEADER_SIZE * Len(p.descs)
    ELSE IF j = 6 THEN p.numVars
    ELSE IF j = 7 THEN p.varOff
    ELSE IF j = 8 THEN 1
    ELSE IF j = 9 THEN p.bufLen
    ELSE IF j = 13 THEN p.bufOffset
    ELSE 0

SlotByte(d, r) ==
    IF r < 4 THEN LEByte(d.type, r)
    ELSE IF r < 8 THEN LEByte(d.dataOffset, r - 4)
    ELSE IF r < 12 THEN LEByte(1, r - 8)
    ELSE IF r < NameFieldStart THEN 0
    ELSE IF r < NameFieldEnd THEN
        (IF r - NameFieldStart < Len(d.name)
         THEN d.name[r - NameFieldStart + 1] ELSE 0)
    ELSE d.fill

HeaderBytes(p) == [k \in 1..HeaderSize |-> LEByte(HeaderWord(p, (k - 1) \div 4), (k - 1) % 4)]

SlotBytes(d) == [r \in 1..VAR_HEADER_SIZE |-> SlotByte(d, r - 1)]

WordBytes(w) == <<LEByte(w, 0), LEByte(w, 1), LEByte(w, 2), LEByte(w, 3)>>

RECURSIVE Flatten(_)
Flatten(ss) == IF ss = <<>> THEN <<>> ELSE Head(ss) \o Flatten(Tail(ss))

TableBytes(p) == Flatten([j \in 1..Len(p.descs) |-> SlotBytes(p.descs[j])])

SampleBytes(sample) == Flatten([j \in 1..Len(sample) |-> WordBytes(sample[j])])

DataBytes(p) == Flatten([j \in 1..Len(p.samples) |-> SampleBytes(p.samples[j])])

FileImage(p) ==
    LET image == HeaderBytes(p) \o TableBytes(p) \o p.info \o DataBytes(p)
        n == IF Len(image) - p.cut < 0 THEN 0 ELSE Len(image) - p.cut
    IN  SubSeq(image, 1, n)

\* ----------------------------------------------------- Catalogue of inputs
Desc(name, type, off) == [name |-> name, type |-> type, dataOffset |-> off, fill |-> 1]

File(descs, numVars, varOff, bufLen, bufOffset, samples, cut) ==
    [descs |-> descs, numVars |-> numVars, varOff |-> varOff, info |-> <<>>,
     bufLen |-> bufLen, bufOffset |-> bufOffset, samples |-> samples, cut |-> cut]

\* the layout the simulator writes: Lap (Int32), LapLastLapTime (Float32),
\* LapBestLapTime (Float32), twelve bytes a sample
StdDescs ==
    <<Desc(NameLap, 2, 0), Desc(NameLapLastLapTime, 4, 4), Desc(NameLapBestLapTime, 4, 8)>>

StdStart == HeaderSize + 3 * VAR_HEADER_SIZE

Std(samples) == File(StdDescs, 3, HeaderSize, 12, StdStart, samples, 0)

Secs(n) == n * TicksPerSecond

SeqsUpTo(S, n) == UNION {[1..k -> S] : k \in 0..n}

\* lap counter values and last-lap times seen in one sample
LapValues == {0, 1}
LastValues == {Secs(85), Secs(90), Secs(MaxValidLapSeconds)}
SampleKinds == (LapValues \X LastValues) \cup {<<-2, Secs(90)>>}
BestValues == {0, Secs(85)}

WithBest(seq, best) == [k \in 1..Len(seq) |-> <<seq[k][1], seq[k][2], best>>]

\* every sample stream up to MaxSamples samples, in the standard layout
StreamFiles ==
    {Std(WithBest(seq, best)) :
        seq \in SeqsUpTo(SampleKinds, MaxSamples), best \in BestValues}

\* one three-lap stream used by the variants below
Stream3 == <<<<0, 0, 0>>, <<1, Secs(90), Secs(90)>>, <<2, Secs(85), Secs(85)>>>>

\* special sample values: NaN, zero, negative times, the sentinel as data
OddStreams ==
    {<<<<0, 0, 0>>, <<1, NaNWord, NaNWord>>>>,
     <<<<0, 0, 0>>, <<1, 0, 0>>>>,
     <<<<0, 0, 0>>, <<1, -1, -1>>>>,
     <<<<0, 0, 0>>, <<1, 1, Secs(700)>>>>,
     <<<<-1, 0, 0>>, <<0, Secs(90), 0>>, <<1, Secs(85), 0>>>>}

\* a lap counter declared Float32 that reads NaN
NaNLapFile ==
    File(<<Desc(NameLap, 4, 0), Desc(NameLapLastLapTime, 4, 4), Desc(NameLapBestLapTime, 4, 8)>>,
         3, HeaderSize, 12, StdStart,
         <<<<NaNWord, 0, 0>>, <<NaNWord, Secs(90), 0>>, <<Secs(1), Secs(90), 0>>>>, 0)

OddFiles == {Std(ss) : ss \in OddStreams} \cup {NaNLapFile}

\* the three channels declared with other type tags and offsets
TypedFiles ==
    {File(<<Desc(NameLap, ty[1], 0), Desc(NameLapLastLapTime, ty[2], 4),
            Desc(NameLapBestLapTime, ty[3], 8)>>,
          3, HeaderSize, 12, StdStart, Stream3, 0) :
        ty \in ({0, 1, 3, 4, 5, 6} \X {4} \X {4}) \cup ({2} \X {0, 1, 2, 3, 5} \X {4})
               \cup ({2} \X {4} \X {1, 2, 5, 7})}

OffsetFiles ==
    {File(<<Desc(NameLap, 2, o[1]), Desc(NameLapLastLapTime, 4, o[2]),
            Desc(NameLapBestLapTime, 4, o[3])>>,
          3, HeaderSize, 12, StdStart, Stream3, 0) :
        o \in ({-4, 10, 12, 24} \X {4} \X {8}) \cup ({0} \X {-8, 10} \X {8})
              \cup ({0} \X {4} \X {-4, 10, 12})}

\* descriptor tables without one of the channels, or declaring fewer slots
FewerDescs ==
    {<<>>,
     <<Desc(NameLap, 2, 0)>>,
     <<Desc(NameLapLastLapTime, 4, 4)>>,
     <<Desc(NameLapBestLapTime, 4, 8), Desc(NameLapLastLapTime, 4, 4)>>,
     <<Desc(NameLap, 2, 0), Desc(NameLapLastLapTime, 4, 4)>>,
     <<Desc(NameLapLastLapTime, 4, 4), Desc(NameLap, 2, 0)>>}

TableFiles ==
    {File(ds, Len(ds), HeaderSize, 12, HeaderSize + VAR_HEADER_SIZE * Len(ds), Stream3, 0) :
        ds \in FewerDescs}
    \cup {File(StdDescs, n, HeaderSize, 12, StdStart, Stream3, 0) : n \in {-1, 0, 1, 2, 4}}
    \cup {File(StdDescs, 3, off, 12, StdStart, Stream3, 0) :
            off \in {-1, HeaderSize + VAR_HEADER_SIZE, HeaderSize + 8}}

\* header fields for the sample region that disagree with the file
RegionFiles ==
    {File(StdDescs, 3, HeaderSize, st, off, Stream3, 0) :
        st \in {-12, 0, 8, 12, 24},
        off \in {-12, StdStart - 12, StdStart, StdStart + 12, StdStart + 36, StdStart + 48}}

\* files cut short: inside the header, inside the table, inside the samples
CutFiles ==
    {File(StdDescs, 3, HeaderSize, 12, StdStart, Stream3, c) :
        c \in {1, 36, 37, 36 + 96, 36 + 136, 36 + 137, 36 + 3 * VAR_HEADER_SIZE}}
    \cup {File(<<>>, 0, HeaderSize, 12, HeaderSize, <<>>, c) : c \in {0, 1, 4, 16, 17, HeaderSize}}

\* a name that fills its field, names holding a NUL, no name, and a file
\* that ends inside the name field of its last slot
LongName == NameLap \o [i \in 1..(NameFieldEnd - NameFieldStart - Len(NameLap)) |-> 120]

NameFiles ==
    {File(<<Desc(n, 2, 0), Desc(NameLapLastLapTime, 4, 4), Desc(NameLapBestLapTime, 4, 8)>>,
          3, HeaderSize, 12, StdStart, Stream3, 0) :
        n \in {LongName, NameLap \o <<0, 120>>, <<0>> \o NameLap, <<>>}}
    \cup {File(<<Desc(NameLap, 2, 0), Desc(NameLapLastLapTime, 4, 4), Desc(LongName, 4, 8)>>,
               3, HeaderSize, 12, StdStart, Stream3, 0),
          File(StdDescs, 3, HeaderSize, 12, StdStart, Stream3, 36 + 96 + 20)}

ScanFiles ==
    StreamFiles \cup OddFiles \cup TypedFiles \cup OffsetFiles
    \cup TableFiles \cup RegionFiles \cup CutFiles \cup NameFiles

\* the files of a whole run
RunFiles ==
    {Std(Stream3),
     Std(<<<<0, 0, 0>>, <<1, Secs(88), Secs(80)>>>>),
     Std(<<>>),
     File(<<Desc(NameLap, 2, 0)>>, 1, HeaderSize, 12, HeaderSize + VAR_HEADER_SIZE, Stream3, 0),
     File(StdDescs, 3, HeaderSize, 12, StdStart, Stream3, 36 + 96),
     File(StdDescs, 3, HeaderSize, 12, StdStart, Stream3, 36 + 3 * VAR_HEADER_SIZE + 20),
     File(StdDescs, 3, HeaderSize, 0, StdStart, Stream3, 0),
     File(StdDescs, 3, HeaderSize, -12, StdStart, Stream3, 0),
     File(<<Desc(NameLapLastLapTime, 4, 4)>>, 1, HeaderSize, 12,
          HeaderSize + VAR_HEADER_SIZE, Stream3, 0),
     File(<<Desc(NameLap, 2, 0), Desc(NameLapLastLapTime, 4, 10),
            Desc(NameLapBestLapTime, 4, 8)>>, 3, HeaderSize, 12, StdStart, Stream3, 0),
     File(<<Desc(NameLap, 2, 0), Desc(NameLapLastLapTime, 4, 4),
            Desc(NameLapBestLapTime, 4, 12)>>, 3, HeaderSize, 12, StdStart, Stream3, 0)}

Disk(s) == IF s = "scan" THEN ScanFiles ELSE RunFiles

FileNames == <<"a.ibt", "b.ibt", "c.ibt", "d.ibt", "e.ibt">>

\* -------------------------------------------------------------------- State
VARIABLES
    suite,            \* which catalogue the files on disk come from
    files,            \* the sorted list of .ibt paths
    fileIdx,          \* i of the main loop
    pc,               \* "main", "decode" and "scan" (in processIbtFile), "done"
    sessions, totalLaps, bestOverallTime, bestOverallFile,
    buffer, fileName,                         \* locals of processIbtFile
    lapVar, lastLapTimeVar, bestLapTimeVar,
    bufOffset, bufLen, totalSamples,
    sampleIdx, laps, prevLap, sessionBestTime,
    reads,            \* history: every readVar call made on the current file
    attempts,         \* history: the files handed to processIbtFile, in order
    byDateAndCar, carStats,                   \* the accumulation maps
    wetSessionsSkipped, outlierLapsFiltered,
    foldIdx,          \* position of sessions.forEach
    statIdx,          \* position of the forEach of the statistics pass
    cleaned,          \* history: allTimes and times of every statistics step
    outputData,       \* the object written to telemetry-data.json
    statValues, statBest, statOut   \* a helper call: arguments and results

vars ==
    <<suite, files, fileIdx, pc, sessions, totalLaps, bestOverallTime,
      bestOverallFile, buffer, fileName, lapVar, lastLapTimeVar,
      bestLapTimeVar, bufOffset, bufLen, totalSamples, sampleIdx, laps,
      prevLap, sessionBestTime, reads, attempts, byDateAndCar, carStats,
      wetSessionsSkipped, outlierLapsFiltered, foldIdx, statIdx, cleaned,
      outputData, statValues, statBest, statOut>>

runVars == <<suite, files>>
aggVars ==
    <<byDateAndCar, carStats, wetSessionsSkipped, outlierLapsFiltered,
      foldIdx, statIdx, cleaned, outputData>>
statVars == <<statValues, statBest, statOut>>

\* a property that was not assigned, or was deleted
NotSet == [t |-> "undefined", v |-> 0]

\* no helper call is under way
NoCall ==
    /\ statValues = <<>>
    /\ statBest = Null
    /\ statOut = <<>>
mainVars == <<sessions, totalLaps, bestOverallTime, bestOverallFile>>
scanVars ==
    <<buffer, fileName, lapVar, lastLapTimeVar, bestLapTimeVar, bufOffset,
      bufLen, totalSamples, sampleIdx, laps, prevLap, sessionBestTime>>

\* locals of processIbtFile do not exist outside a call
NoLocals ==
    /\ buffer = <<>>
    /\ fileName = ""
    /\ lapVar = Undefined
    /\ lastLapTimeVar = Undefined
    /\ bestLapTimeVar = Undefined
    /\ bufOffset = 0
    /\ bufLen = 0
    /\ totalSamples = Num(0)
    /\ sampleIdx = 0
    /\ laps = <<>>
    /\ prevLap = Num(-TicksPerSecond)
    /\ sessionBestTime = Infinity

\* the state of the aggregation before line 270 is reached
NoAggregates ==
    /\ byDateAndCar = <<>>
    /\ carStats = <<>>
    /\ wetSessionsSkipped = 0
    /\ outlierLapsFiltered = 0
    /\ foldIdx = 0
    /\ statIdx = 0
    /\ cleaned = <<>>
    /\ outputData = <<>>

ClearLocals ==
    /\ buffer' = <<>>
    /\ fileName' = ""
    /\ lapVar' = Undefined
    /\ lastLapTimeVar' = Undefined
    /\ bestLapTimeVar' = Undefined
    /\ bufOffset' = 0
    /\ bufLen' = 0
    /\ totalSamples' = Num(0)
    /\ sampleIdx' = 0
    /\ laps' = <<>>
    /\ prevLap' = Num(-TicksPerSecond)
    /\ sessionBestTime' = Infinity

InitMain ==
    /\ fileIdx = 0
    /\ pc = "main"
    /\ sessions = <<>>
    /\ totalLaps = 0
    /\ bestOverallTime = Infinity
    /\ bestOverallFile = ""
    /\ reads = {}
    /\ attempts = <<>>
    /\ NoLocals
    /\ NoAggregates
    /\ NoCall

\* one file, any container of the scan catalogue
Init ==
    /\ suite = "scan"
    /\ files = SubSeq(FileNames, 1, 1)
    /\ InitMain

\* up to MaxFiles files, each any container of the run catalogue
InitRun ==
    /\ suite = "run"
    /\ \E n \in 0..MaxFiles : files = SubSeq(FileNames, 1, n)
    /\ InitMain

\* --------------------------------------------------------- processIbtFile
FloorDiv(a, b) == IF b > 0 THEN a \div b ELSE (-a) \div (-b)

\* Math.floor((buffer.length - bufOffset) / bufLen)
TotalSamples(len, off, stride) ==
    IF stride = 0 THEN
        (IF len - off > 0 THEN Infinity
         ELSE IF len - off < 0 THEN NegInfinity ELSE NaN)
    ELSE Num(FloorDiv(len - off, stride))

\* the early return taken only when "Lap" is absent
MissingLapVars_LapOnly(lv, tv) == ~lv.found

\* if (!lapVar || !lastLapTimeVar)
MissingLapVars(lv, tv) == ~lv.found \/ ~tv.found

\* processIbtFile from the lookups on, for a table that was read
DecodeChannels(buf, header, list) ==
    LET lv == Find(list, NameLap)
        tv == Find(list, NameLapLastLapTime)
        bv == Find(list, NameLapBestLapTime)
        off == ReadInt32LE(buf, BufOffsetFieldPos)
    IN  IF MissingLapVars(lv, tv) THEN [kind |-> "missing"]
        ELSE IF off.t = "threw" THEN [kind |-> "threw"]
        ELSE [kind |-> "scan", lapVar |-> lv, lastLapTimeVar |-> tv,
              bestLapTimeVar |-> bv, bufOffset |-> off.v,
              bufLen |-> header.bufLen,
              totalSamples |-> TotalSamples(Len(buf), off.v, header.bufLen)]

\* processIbtFile from parseVarHeaders on, for a header that was read
DecodeTable(buf, header) ==
    CHOOSE d \in
        {IF vs.t = "threw" THEN [kind |-> "threw"]
         ELSE DecodeChannels(buf, header, vs.list) :
            vs \in {parseVarHeaders(buf, header.numVars, header.varHeaderOffset)}} : TRUE

\* processIbtFile up to the scan loop: how the call goes on for a buffer
\* (each intermediate result is bound once, as a const of the function is)
Decode(buf) ==
    CHOOSE d \in
        {IF header.t = "threw" THEN [kind |-> "threw"] ELSE DecodeTable(buf, header) :
            header \in {parseIbtHeader(buf)}} : TRUE

\* the entries of the sessions list
ErrorEntry(name, message) ==
    [fileName |-> name, decoded |-> FALSE, laps |-> <<>>, bestLapTime |-> Null,
     totalLaps |-> 0, error |-> message]

SessionResult(name, lapList, best, note) ==
    [fileName |-> name, decoded |-> TRUE, laps |-> lapList, bestLapTime |-> best,
     totalLaps |-> Len(lapList), error |-> note]

OutOfRange == "ERR_OUT_OF_RANGE"
MissingLapVariables == "Missing lap variables"

\* the run-level figures taken from the sessions without rain only
PushResult_DryOnly(result) ==
    /\ sessions' = Append(sessions, result)
    /\ IF "isWet" \in DOMAIN result /\ result.isWet
       THEN UNCHANGED <<totalLaps, bestOverallTime, bestOverallFile>>
       ELSE /\ totalLaps' = totalLaps + result.totalLaps
            /\ IF Truthy(result.bestLapTime) /\ JsLess(result.bestLapTime, bestOverallTime)
               THEN /\ bestOverallTime' = result.bestLapTime
                    /\ bestOverallFile' = result.fileName
               ELSE UNCHANGED <<bestOverallTime, bestOverallFile>>
    /\ fileIdx' = fileIdx + 1
    /\ pc' = "main"

\* the try branch of the main loop after processIbtFile returned result
PushResult(result) ==
    /\ sessions' = Append(sessions, result)
    /\ totalLaps' = totalLaps + result.totalLaps
    /\ IF Truthy(result.bestLapTime) /\ JsLess(result.bestLapTime, bestOverallTime)
       THEN /\ bestOverallTime' = result.bestLapTime
            /\ bestOverallFile' = result.fileName
       ELSE UNCHANGED <<bestOverallTime, bestOverallFile>>
    /\ fileIdx' = fileIdx + 1
    /\ pc' = "main"

\* a catch branch that only logs
PushError_LogOnly(name) ==
    /\ UNCHANGED <<sessions, totalLaps, bestOverallTime, bestOverallFile>>
    /\ fileIdx' = fileIdx + 1
    /\ pc' = "main"

\* the catch branch of the main loop
PushError(name) ==
    /\ sessions' = Append(sessions, ErrorEntry(name, OutOfRange))
    /\ UNCHANGED <<totalLaps, bestOverallTime, bestOverallFile>>
    /\ fileIdx' = fileIdx + 1
    /\ pc' = "main"

\* the main loop takes the next path and processIbtFile reads the file:
\* buffer = fs.readFileSync(filePath), fileName = path.basename(filePath)
ReadFile ==
    /\ pc = "main"
    /\ fileIdx < Len(files)
    /\ \E p \in Disk(suite) : buffer' = FileImage(p)
    /\ fileName' = files[fileIdx + 1]
    /\ pc' = "decode"
    /\ attempts' = Append(attempts, files[fileIdx + 1])
    /\ reads' = {}
    /\ UNCHANGED <<runVars, fileIdx, mainVars>>
    /\ UNCHANGED <<lapVar, lastLapTimeVar, bestLapTimeVar, bufOffset, bufLen,
                   totalSamples, sampleIdx, laps, prevLap, sessionBestTime>>
    /\ UNCHANGED <<aggVars, statVars>>

\* a read of the header or of the descriptor table is out of range
DecodeThrows ==
    /\ pc = "decode"
    /\ \E d \in {Decode(buffer)} : d.kind = "threw"
    /\ PushError(fileName)
    /\ ClearLocals
    /\ UNCHANGED <<runVars, reads, attempts>>
    /\ UNCHANGED <<aggVars, statVars>>

\* "Lap" or "LapLastLapTime" is not in the table: early return
MissingChannel ==
    /\ pc = "decode"
    /\ \E d \in {Decode(buffer)} : d.kind = "missing"
    /\ PushResult(SessionResult(fileName, <<>>, Null, MissingLapVariables))
    /\ ClearLocals
    /\ UNCHANGED <<runVars, reads, attempts>>
    /\ UNCHANGED <<aggVars, statVars>>

\* both channels found: the locals are set and the scan loop is entered
BeginScan ==
    /\ pc = "decode"
    /\ \E d \in {Decode(buffer)} :
           /\ d.kind = "scan"
           /\ lapVar' = d.lapVar
           /\ lastLapTimeVar' = d.lastLapTimeVar
           /\ bestLapTimeVar' = d.bestLapTimeVar
           /\ bufOffset' = d.bufOffset
           /\ bufLen' = d.bufLen
           /\ totalSamples' = d.totalSamples
    /\ sampleIdx' = 0
    /\ laps' = <<>>
    /\ prevLap' = Num(-TicksPerSecond)
    /\ sessionBestTime' = Infinity
    /\ pc' = "scan"
    /\ UNCHANGED <<runVars, fileIdx, mainVars, buffer, fileName, reads, attempts>>
    /\ UNCHANGED <<aggVars, statVars>>

\* ------------------------------------------------------------ The scan loop
\* the loop bound taken inclusively
InLoop_Inclusive == ~JsLess(totalSamples, Num(sampleIdx)) /\ totalSamples.t /= "nan"

\* i < totalSamples
InLoop == JsLess(Num(sampleIdx), totalSamples)

\* const sampleOffset = bufOffset + i * bufLen
SampleOffset(i) == bufOffset + i * bufLen

\* the bytes a successful readVar call reads
ReadRec(i, start, varInfo) ==
    [idx |-> i, start |-> start, pos |-> start + varInfo.dataOffset,
     width |-> ReadWidth(varInfo.type)]

ReadsOf(i, start, varInfos) ==
    {ReadRec(i, start, v) : v \in {w \in varInfos : ReadWidth(w.type) > 0}}

\* the guard without its second conjunct
Boundary_NoPrevCheck(lap, prev) == StrictNeq(lap, prev)

\* lap !== prevLap && prevLap >= 0
Boundary(lap, prev) == StrictNeq(lap, prev) /\ JsGeq(prev, Num(0))

\* the window closed at its upper end
ValidLapTime_Inclusive(t) ==
    JsGreater(t, Num(0)) /\ ~JsGreater(t, Num(MaxValidLapSeconds * TicksPerSecond))

\* lastLapTime > 0 && lastLapTime < 600
ValidLapTime(t) ==
    JsGreater(t, Num(0)) /\ JsLess(t, Num(MaxValidLapSeconds * TicksPerSecond))

LapRecord(number, time) == [lapNumber |-> number, timeSeconds |-> time]

\* i++ : past the largest safe integer the increment leaves i unchanged
Increment(i) == IF i < MaxSafeIndex THEN i + 1 ELSE i

\* one iteration of the for loop
ScanSample ==
    /\ pc = "scan"
    /\ InLoop
    /\ LET off == SampleOffset(sampleIdx)
           lap == readVar(buffer, lapVar, off)
           lastLapTime == readVar(buffer, lastLapTimeVar, off)
       IN  /\ lap.t /= "threw"
           /\ lastLapTime.t /= "threw"
           /\ IF Boundary(lap, prevLap) /\ ValidLapTime(lastLapTime)
              THEN /\ laps' = Append(laps, LapRecord(prevLap, lastLapTime))
                   /\ sessionBestTime' =
                        IF JsLess(lastLapTime, sessionBestTime)
                        THEN lastLapTime ELSE sessionBestTime
              ELSE UNCHANGED <<laps, sessionBestTime>>
           /\ prevLap' = lap
           /\ reads' = reads \cup ReadsOf(sampleIdx, off, {lapVar, lastLapTimeVar})
    /\ sampleIdx' = Increment(sampleIdx)
    /\ UNCHANGED <<runVars, fileIdx, pc, mainVars, attempts>>
    /\ UNCHANGED <<buffer, fileName, lapVar, lastLapTimeVar, bestLapTimeVar,
                   bufOffset, bufLen, totalSamples>>
    /\ UNCHANGED <<aggVars, statVars>>

\* a readVar call of the loop is out of range: the main loop catches it
ScanThrows ==
    /\ pc = "scan"
    /\ InLoop
    /\ LET off == SampleOffset(sampleIdx)
           lap == readVar(buffer, lapVar, off)
           lastLapTime == readVar(buffer, lastLapTimeVar, off)
       IN  /\ lap.t = "threw" \/ lastLapTime.t = "threw"
           /\ reads' = IF lap.t = "threw" THEN reads
                       ELSE reads \cup ReadsOf(sampleIdx, off, {lapVar})
    /\ PushError(fileName)
    /\ ClearLocals
    /\ UNCHANGED <<runVars, attempts>>
    /\ UNCHANGED <<aggVars, statVars>>

\* the post-pass applies: bestLapTimeVar && totalSamples > 0
PostPassApplies == bestLapTimeVar.found /\ JsGreater(totalSamples, Num(0))

LastSampleOffset == bufOffset + (totalSamples.v - 1) * bufLen

\* the post-pass without its positivity test
AfterPostPass_NoPositiveCheck(best, finalBest) ==
    IF JsLess(finalBest, best) THEN finalBest ELSE best

\* the session best after the post-pass read finalBest
AfterPostPass(best, finalBest) ==
    IF JsGreater(finalBest, Num(0)) /\ JsLess(finalBest, best)
    THEN finalBest ELSE best

\* the best time left out of the result
BestOrNull_AlwaysNull(best) == Null

\* bestLapTime: sessionBestTime < Infinity ? sessionBestTime : null
BestOrNull(best) == IF JsLess(best, Infinity) THEN best ELSE Null

\* the loop is over: post-pass, return, and the try branch of the main loop
ReturnSession ==
    /\ pc = "scan"
    /\ ~InLoop
    /\ IF PostPassApplies
       THEN LET finalBest == readVar(buffer, bestLapTimeVar, LastSampleOffset)
            IN  /\ finalBest.t /= "threw"
                /\ PushResult(SessionResult(fileName, laps,
                        BestOrNull(AfterPostPass(sessionBestTime, finalBest)), ""))
                /\ reads' = reads \cup
                        ReadsOf(totalSamples.v - 1, LastSampleOffset, {bestLapTimeVar})
       ELSE /\ PushResult(SessionResult(fileName, laps, BestOrNull(sessionBestTime), ""))
            /\ UNCHANGED reads
    /\ ClearLocals
    /\ UNCHANGED <<runVars, attempts>>
    /\ UNCHANGED <<aggVars, statVars>>

\* the readVar call of the post-pass is out of range
PostPassThrows ==
    /\ pc = "scan"
    /\ ~InLoop
    /\ PostPassApplies
    /\ readVar(buffer, bestLapTimeVar, LastSampleOffset).t = "threw"
    /\ PushError(fileName)
    /\ ClearLocals
    /\ UNCHANGED <<runVars, reads, attempts>>
    /\ UNCHANGED <<aggVars, statVars>>

\* totalSessions: sessions.length
TotalSessions == Len(sessions)

\* the main loop is over
EndRun ==
    /\ pc = "main"
    /\ fileIdx = Len(files)
    /\ pc' = "done"
    /\ UNCHANGED <<runVars, fileIdx, mainVars, scanVars, reads, attempts>>
    /\ UNCHANGED <<aggVars, statVars>>

Next ==
    \/ ReadFile
    \/ DecodeThrows
    \/ MissingChannel
    \/ BeginScan
    \/ ScanSample
    \/ ScanThrows
    \/ ReturnSession
    \/ PostPassThrows
    \/ EndRun

Spec == Init /\ [][Next]_vars

RunSpec == InitRun /\ [][Next]_vars

\* the script runs to completion: no step that can be taken is put off forever
FairRunSpec ==
    /\ RunSpec
    /\ WF_vars(ReadFile)
    /\ WF_vars(DecodeThrows)
    /\ WF_vars(MissingChannel)
    /\ WF_vars(BeginScan)
    /\ WF_vars(ScanSample)
    /\ WF_vars(ScanThrows)
    /\ WF_vars(ReturnSession)
    /\ WF_vars(PostPassThrows)
    /\ WF_vars(EndRun)

TypeOK ==
    /\ pc \in {"main", "decode", "scan", "done"}
    /\ fileIdx \in 0..Len(files)
    /\ Len(sessions) = fileIdx
    /\ pc \in {"main", "done"} => NoLocals
    /\ sampleIdx \in 0..MaxSafeIndex
    /\ (pc = "scan" /\ totalSamples.t = "num" /\ InLoop) => sampleIdx < MaxSafeIndex

\* =============================================================== Aggregation
\* s.date, s.car: a property the entry does not have reads as undefined,
\* which is falsy like the empty text
Prop(s, name) == IF name \in DOMAIN s THEN s[name] ELSE <<>>

\* s.isWet, as a condition
IsWetSession(s) == IF "isWet" \in DOMAIN s THEN s.isWet ELSE FALSE

\* { fileName, date: dateInfo?.date, ...sessionInfo, laps, ... }
WithInfo(result, date, info) ==
    result @@ [date |-> date, track |-> info.track, trackShort |-> info.trackShort,
               car |-> info.car, driver |-> info.driver,
               precipitation |-> info.precipitation, skies |-> info.skies,
               isWet |-> info.isWet]

\* `${s.date}|${s.car}`
Key(s) == s.date \o <<124>> \o s.car

NewDateCar(s) ==
    [key |-> Key(s), date |-> s.date, car |-> s.car, sessions |-> 0,
     totalLaps |-> 0, allLapTimes |-> <<>>, bestTime |-> Infinity,
     bestTimeFormatted |-> Null, track |-> s.track]

NewCar(s) ==
    [key |-> s.car, car |-> s.car, totalSessions |-> 0, totalLaps |-> 0,
     allLapTimes |-> <<>>, bestTime |-> Infinity, bestTimeFormatted |-> Null]

\* the place of the key in a map (insertion order), 0 when it is not there
IndexOf(map, key) ==
    LET hits == {i \in 1..Len(map) : map[i].key = key}
    IN  IF hits = {} THEN 0 ELSE CHOOSE i \in hits : TRUE

\* the lap times s.laps.forEach pushes
LapTimesOf(s) ==
    SelectSeq(<<>> \o [i \in 1..Len(s.laps) |-> s.laps[i].timeSeconds], ValidLapTime)

\* one session added to the entry of its group; count names the counter
Collect(entry, s, count) ==
    [entry EXCEPT ![count] = @ + 1,
                  !.totalLaps = @ + s.totalLaps,
                  !.allLapTimes = @ \o LapTimesOf(s),
                  !.bestTime = IF Truthy(s.bestLapTime) /\ JsLess(s.bestLapTime, @)
                               THEN s.bestLapTime ELSE @,
                  !.bestTimeFormatted =
                      IF Truthy(s.bestLapTime) /\ JsLess(s.bestLapTime, entry.bestTime)
                      THEN s.bestLapTimeFormatted ELSE @]

\* if (!map[key]) map[key] = fresh; then the updates of map[key]
Put(map, key, fresh, s, count) ==
    LET i == IndexOf(map, key)
        base == IF i = 0 THEN Append(map, fresh) ELSE map
        j == IF i = 0 THEN Len(map) + 1 ELSE i
    IN  [base EXCEPT ![j] = Collect(base[j], s, count)]

\* wet sessions taken into the aggregates
SkipWet_Never(s) == FALSE

\* EXCLUDE_WET_SESSIONS && s.isWet
SkipWet(s) == EXCLUDE_WET_SESSIONS /\ IsWetSession(s)

\* sessions with an error note left out as well
HasDateAndCar_NoErrorNote(s) ==
    Prop(s, "date") /= <<>> /\ Prop(s, "car") /= <<>> /\ s.error = ""

\* s.date && s.car
HasDateAndCar(s) == Prop(s, "date") /= <<>> /\ Prop(s, "car") /= <<>>

\* the main loop is over: the accumulation maps are declared
StartAggregation ==
    /\ pc = "main"
    /\ fileIdx = Len(files)
    /\ pc' = "aggregate"
    /\ byDateAndCar' = <<>>
    /\ carStats' = <<>>
    /\ wetSessionsSkipped' = 0
    /\ outlierLapsFiltered' = 0
    /\ foldIdx' = 0
    /\ statIdx' = 0
    /\ cleaned' = <<>>
    /\ outputData' = <<>>
    /\ UNCHANGED <<runVars, fileIdx, mainVars, scanVars, reads, attempts, statVars>>

\* one call of the callback of sessions.forEach
FoldSession ==
    /\ pc = "aggregate"
    /\ foldIdx < Len(sessions)
    /\ LET s == sessions[foldIdx + 1]
       IN  IF HasDateAndCar(s)
           THEN IF SkipWet(s)
                THEN /\ wetSessionsSkipped' = wetSessionsSkipped + 1
                     /\ UNCHANGED <<byDateAndCar, carStats>>
                ELSE /\ byDateAndCar' =
                          Put(byDateAndCar, Key(s), NewDateCar(s), s, "sessions")
                     /\ carStats' = Put(carStats, s.car, NewCar(s), s, "totalSessions")
                     /\ UNCHANGED wetSessionsSkipped
           ELSE UNCHANGED <<byDateAndCar, carStats, wetSessionsSkipped>>
    /\ foldIdx' = foldIdx + 1
    /\ UNCHANGED <<runVars, fileIdx, pc, mainVars, scanVars, reads, attempts>>
    /\ UNCHANGED <<outlierLapsFiltered, statIdx, cleaned, outputData, statVars>>

\* a - b on numbers
Minus(a, b) ==
    IF a.t = "num" /\ b.t = "num" THEN Num(a.v - b.v)
    ELSE IF a.t = "num" /\ b.t = "inf" THEN NegInfinity ELSE NaN

\* the last of the times taken for the slowest
MaxOf_LastLap(times) == times[Len(times)]

\* Math.max(...times) of a non-empty list
MaxOf(times) == Num(Max({times[i].v : i \in 1..Len(times)}))

\* delete entry.allLapTimes
WithoutLapTimes(entry) == [f \in DOMAIN entry \ {"allLapTimes"} |-> entry[f]]

\* the totalLapsClean taken from the raw list
Counts_RawAsClean(allTimes, times) ==
    [totalLapsRaw |-> Len(allTimes), totalLapsClean |-> Len(allTimes),
     outliersFiltered |-> Len(allTimes) - Len(times)]

\* totalLapsRaw, totalLapsClean and outlierCount
Counts(allTimes, times) ==
    [totalLapsRaw |-> Len(allTimes), totalLapsClean |-> Len(times),
     outliersFiltered |-> Len(allTimes) - Len(times)]

\* entry.range = entry.slowestTime - entry.bestTime
RangeOf(times, bestTime) == Minus(MaxOf(times), bestTime)

\* entry.range.toFixed(3) + 's'
RangeText(range) == Str(ToFixed3(DoubleOf(range)) \o <<115>>)

\* the statistics of a date+car entry for its clean times
DateCarStats(entry, times) ==
    WithoutLapTimes(entry) @@ Counts(entry.allLapTimes, times) @@
    (IF Len(times) > 0
     THEN [medianTime |-> calculateMedian(times),
           medianTimeFormatted |-> formatLapTime(calculateMedian(times)),
           slowestTime |-> MaxOf(times),
           slowestTimeFormatted |-> formatLapTime(MaxOf(times)),
           range |-> RangeOf(times, entry.bestTime),
           rangeFormatted |-> RangeText(RangeOf(times, entry.bestTime)),
           consistencyScore |-> calculateConsistencyScore(times)]
     ELSE [medianTime |-> Null, medianTimeFormatted |-> Null,
           slowestTime |-> Null, slowestTimeFormatted |-> Null,
           range |-> Null, rangeFormatted |-> Null,
           consistencyScore |-> Null])

\* the car entry counts its raw laps as clean
CarStats_Unfiltered(entry, times) ==
    WithoutLapTimes(entry) @@
    [totalLapsRaw |-> Len(entry.allLapTimes), totalLapsClean |-> Len(entry.allLapTimes)] @@
    (IF Len(times) > 0
     THEN [medianTime |-> calculateMedian(times),
           medianTimeFormatted |-> formatLapTime(calculateMedian(times)),
           consistencyScore |-> calculateConsistencyScore(times)]
     ELSE [medianTime |-> Null, medianTimeFormatted |-> Null,
           consistencyScore |-> Null])

\* the statistics of a car entry for its clean times
CarStats(entry, times) ==
    WithoutLapTimes(entry) @@
    [totalLapsRaw |-> Len(entry.allLapTimes), totalLapsClean |-> Len(times)] @@
    (IF Len(times) > 0
     THEN [medianTime |-> calculateMedian(times),
           medianTimeFormatted |-> formatLapTime(calculateMedian(times)),
           consistencyScore |-> calculateConsistencyScore(times)]
     ELSE [medianTime |-> Null, medianTimeFormatted |-> Null,
           consistencyScore |-> Null])

Cleaned(scope, entry, times) ==
    [scope |-> scope, key |-> entry.key, allTimes |-> entry.allLapTimes,
     bestTime |-> entry.bestTime, times |-> times]

\* one call of the callback of Object.values(byDateAndCar).forEach
StatsDateCar ==
    /\ pc = "aggregate"
    /\ foldIdx = Len(sessions)
    /\ statIdx < Len(byDateAndCar)
    /\ \E times \in {filterOutlierLaps(byDateAndCar[statIdx + 1].allLapTimes,
                                       byDateAndCar[statIdx + 1].bestTime)} :
           /\ byDateAndCar' = [byDateAndCar EXCEPT ![statIdx + 1] = DateCarStats(@, times)]
           /\ outlierLapsFiltered' = outlierLapsFiltered
                  + (Len(byDateAndCar[statIdx + 1].allLapTimes) - Len(times))
           /\ cleaned' = Append(cleaned, Cleaned("dateCar", byDateAndCar[statIdx + 1], times))
    /\ statIdx' = statIdx + 1
    /\ UNCHANGED <<runVars, fileIdx, pc, mainVars, scanVars, reads, attempts>>
    /\ UNCHANGED <<carStats, wetSessionsSkipped, foldIdx, outputData, statVars>>

\* one call of the callback of Object.values(carStats).forEach
StatsCar ==
    /\ pc = "aggregate"
    /\ foldIdx = Len(sessions)
    /\ statIdx >= Len(byDateAndCar)
    /\ statIdx < Len(byDateAndCar) + Len(carStats)
    /\ LET c == statIdx - Len(byDateAndCar) + 1
       IN  \E times \in {filterOutlierLaps(carStats[c].allLapTimes, carStats[c].bestTime)} :
               /\ carStats' = [carStats EXCEPT ![c] = CarStats(@, times)]
               /\ cleaned' = Append(cleaned, Cleaned("car", carStats[c], times))
    /\ statIdx' = statIdx + 1
    /\ UNCHANGED <<runVars, fileIdx, pc, mainVars, scanVars, reads, attempts>>
    /\ UNCHANGED <<byDateAndCar, wetSessionsSkipped, outlierLapsFiltered, foldIdx,
                   outputData, statVars>>

\* JSON.stringify of a number: a number that is not finite is written null
JsonNumber(x) == IF x.t \in {"inf", "ninf", "nan"} THEN Null ELSE x

\* The collation of localeCompare for the characters of dates and car
\* names: space and hyphen sort before the digits, the digits before the
\* letters, and the letters by the alphabet whatever their case.
CollationWeight(c) ==
    IF c \in 65..90 THEN 100 + (c - 65)
    ELSE IF c \in 97..122 THEN 100 + (c - 97)
    ELSE IF IsDigit(c) THEN 50 + (c - 48)
    ELSE IF c = 32 THEN 1 ELSE 2

\* a.localeCompare(b): negative, zero or positive.  Texts that differ in
\* case only are ordered by the first such place, the small letter first.
LocaleCompare(a, b) ==
    LET n == IF Len(a) < Len(b) THEN Len(a) ELSE Len(b)
        diff == {i \in 1..n : CollationWeight(a[i]) /= CollationWeight(b[i])}
        caseDiff == {i \in 1..n : a[i] /= b[i]}
    IN  IF diff /= {}
        THEN (IF CollationWeight(a[Min(diff)]) < CollationWeight(b[Min(diff)]) THEN -1 ELSE 1)
        ELSE IF Len(a) /= Len(b) THEN (IF Len(a) < Len(b) THEN -1 ELSE 1)
        ELSE IF caseDiff /= {}
        THEN (IF a[Min(caseDiff)] > b[Min(caseDiff)] THEN -1 ELSE 1)
        ELSE 0

\* the car entries in the order of their session counts, fewest first
Compare_Ascending(a, b, order) ==
    IF order = "dateCar"
    THEN (IF LocaleCompare(a.date, b.date) /= 0 THEN LocaleCompare(a.date, b.date)
          ELSE LocaleCompare(a.car, b.car))
    ELSE a.totalSessions - b.totalSessions

\* the compare functions of the two sorts: by date and then car, and by
\* session count with the most used car first
Compare(a, b, order) ==
    IF order = "dateCar"
    THEN (IF LocaleCompare(a.date, b.date) /= 0 THEN LocaleCompare(a.date, b.date)
          ELSE LocaleCompare(a.car, b.car))
    ELSE b.totalSessions - a.totalSessions

\* x put into a sorted list behind the elements it does not precede
InsertStable(x, sorted, order) ==
    LET later == {i \in 1..Len(sorted) : Compare(x, sorted[i], order) < 0}
        at == IF later = {} THEN Len(sorted) + 1 ELSE Min(later)
    IN  SubSeq(sorted, 1, at - 1) \o <<x>> \o SubSeq(sorted, at, Len(sorted))

\* Object.values(map).sort(compare): the entries in insertion order,
\* sorted; the sort is stable
RECURSIVE SortStable(_, _)
SortStable(list, order) ==
    IF list = <<>> THEN <<>>
    ELSE InsertStable(list[Len(list)],
                      SortStable(SubSeq(list, 1, Len(list) - 1), order), order)

\* sessions.filter(s => !s.error)
WithoutError(list) == SelectSeq(list, LAMBDA s : s.error = "")

\* both passes are over: the maps are turned into sorted arrays and the
\* output is written
WriteOutput ==
    /\ pc = "aggregate"
    /\ foldIdx = Len(sessions)
    /\ statIdx = Len(byDateAndCar) + Len(carStats)
    /\ outputData' =
           [totalSessions |-> Len(sessions),
            totalLaps |-> totalLaps,
            bestOverallTime |-> bestOverallTime,
            bestOverallTimeFormatted |-> formatLapTime(bestOverallTime),
            carStats |-> SortStable(carStats, "sessions"),
            dailyBests |-> SortStable(byDateAndCar, "dateCar"),
            sessions |-> WithoutError(sessions)]
    /\ pc' = "done"
    /\ UNCHANGED <<runVars, fileIdx, mainVars, scanVars, reads, attempts, statVars>>
    /\ UNCHANGED <<byDateAndCar, carStats, wetSessionsSkipped, outlierLapsFiltered,
                   foldIdx, statIdx, cleaned>>

\* ------------------------------------------------------ The aggregation run
\* The files of a run, in the sorted order of their names, and what
\* processIbtFile makes of each: the session text it finds in the file and
\* the outcome of the scan (the lap times it emits, and the value of the
\* best-lap channel at the last sample where the file has that channel).
\* "a 2024-05-01 10-00-00.ibt"
NameA1 ==
    <<97, 32, 50, 48, 50, 52, 45, 48, 53, 45, 48, 49, 32, 49, 48, 45, 48,
      48, 45, 48, 48, 46, 105, 98, 116>>

\* "b 2024-05-02 10-00-00.ibt"
NameB2 ==
    <<98, 32, 50, 48, 50, 52, 45, 48, 53, 45, 48, 50, 32, 49, 48, 45, 48,
      48, 45, 48, 48, 46, 105, 98, 116>>

\* "c 2024-05-01 11-00-00.ibt"
NameC1 ==
    <<99, 32, 50, 48, 50, 52, 45, 48, 53, 45, 48, 49, 32, 49, 49, 45, 48,
      48, 45, 48, 48, 46, 105, 98, 116>>

\* "d.ibt"
NameD ==
    <<100, 46, 105, 98, 116>>

SortedNames == <<NameA1, NameB2, NameC1, NameD>>

\* "TrackDisplayName: Monza\nCarScreenName: A\n"
InfoCarA ==
    <<84, 114, 97, 99, 107, 68, 105, 115, 112, 108, 97, 121, 78, 97, 109,
      101, 58, 32, 77, 111, 110, 122, 97, 10, 67, 97, 114, 83, 99, 114,
      101, 101, 110, 78, 97, 109, 101, 58, 32, 65, 10>>

\* "CarScreenName: A\nTrackPrecipitation: 0 %\n"
InfoCarADry ==
    <<67, 97, 114, 83, 99, 114, 101, 101, 110, 78, 97, 109, 101, 58, 32,
      65, 10, 84, 114, 97, 99, 107, 80, 114, 101, 99, 105, 112, 105, 116,
      97, 116, 105, 111, 110, 58, 32, 48, 32, 37, 10>>

\* "CarScreenName: A\nTrackPrecipitation: 10 %\n"
InfoCarAWet ==
    <<67, 97, 114, 83, 99, 114, 101, 101, 110, 78, 97, 109, 101, 58, 32,
      65, 10, 84, 114, 97, 99, 107, 80, 114, 101, 99, 105, 112, 105, 116,
      97, 116, 105, 111, 110, 58, 32, 49, 48, 32, 37, 10>>

\* "CarScreenName: B\n"
InfoCarB ==
    <<67, 97, 114, 83, 99, 114, 101, 101, 110, 78, 97, 109, 101, 58, 32,
      66, 10>>

\* "CarScreenName: B\nTrackPrecipitation: 100 %\n"
InfoCarBWet ==
    <<67, 97, 114, 83, 99, 114, 101, 101, 110, 78, 97, 109, 101, 58, 32,
      66, 10, 84, 114, 97, 99, 107, 80, 114, 101, 99, 105, 112, 105, 116,
      97, 116, 105, 111, 110, 58, 32, 49, 48, 48, 32, 37, 10>>

HalfSecs(n) == (n * TicksPerSecond) \div 2

\* the lap records of a scan that emits these times, laps 0, 1, ...
LapsOf(times) ==
    <<>> \o [i \in 1..Len(times) |-> LapRecord(Num(Secs(i - 1)), Num(times[i]))]

\* the running best of the scan loop after these records
RECURSIVE RunningBest(_)
RunningBest(times) ==
    IF times = <<>> THEN Infinity
    ELSE LET before == RunningBest(SubSeq(times, 1, Len(times) - 1))
             last == Num(times[Len(times)])
         IN  IF JsLess(last, before) THEN last ELSE before

\* bestLapTimeFormatted: sessionBestTime < Infinity ? formatLapTime(...) : null
WithFormatted(result) ==
    result @@ [bestLapTimeFormatted |->
                   IF result.bestLapTime.t = "null" THEN Null
                   ELSE formatLapTime(result.bestLapTime)]

\* what processIbtFile returns for a file of the given name whose session
\* text is info, whose scan emits the times and whose post-pass reads
\* finalBest (null when the channel is undeclared)
Processed(name, info, times, finalBest) ==
    WithInfo(WithFormatted(SessionResult(name, LapsOf(times),
                 BestOrNull(AfterPostPass(RunningBest(times), finalBest)), "")),
             parseDateFromFilename(name), extractSessionInfo(info, 0, Len(info)))

\* the early return for a file without the lap channels
ProcessedMissing(name, info) ==
    WithInfo(SessionResult(name, <<>>, Null, MissingLapVariables),
             parseDateFromFilename(name), extractSessionInfo(info, 0, Len(info)))

Content(info, times, finalBest) == [info |-> info, times |-> times, finalBest |-> finalBest]

\* what the files of the run may hold, file by file
FileContents(name) ==
    CASE name = NameA1 ->
             {Content(InfoCarA, <<Secs(90)>>, Num(Secs(90))),
              Content(InfoCarA, <<Secs(91), Secs(92)>>, Null),
              Content(InfoCarA, <<Secs(85)>>, Null),
              Content(InfoCarADry, <<Secs(90)>>, Num(Secs(70))),
              Content(InfoCarAWet, <<Secs(85)>>, Num(Secs(85)))}
      [] name = NameC1 ->
             {Content(InfoCarADry, <<HalfSecs(181)>>, Num(HalfSecs(181))),
              Content(InfoCarA, <<Secs(90), HalfSecs(207)>>, Null),
              Content(InfoCarA, <<Secs(100), Secs(90)>>, Num(Secs(90))),
              Content(InfoCarA, <<>>, Null),
              Content(InfoCarB, <<Secs(85)>>, Null),
              Content(InfoCarBWet, <<Secs(80), Secs(92)>>, Null)}
      [] name = NameB2 ->
             {Content(InfoCarA, <<Secs(80)>>, Null),
              Content(InfoCarAWet, <<Secs(80)>>, Null),
              Content(InfoCarB, <<Secs(90), Secs(99)>>, Null)}
      [] OTHER ->
             {Content(InfoCarA, <<Secs(80)>>, Null),
              Content(InfoCarBWet, <<Secs(80)>>, Null)}

\* the sublists of a list, by the sets of the indices kept
RECURSIVE Pick(_, _)
Pick(list, keep) ==
    IF list = <<>> THEN <<>>
    ELSE (IF Len(list) \in keep THEN Pick(SubSeq(list, 1, Len(list) - 1), keep) \o <<list[Len(list)]>>
          ELSE Pick(SubSeq(list, 1, Len(list) - 1), keep))

InitAgg ==
    /\ suite = "agg"
    /\ \E keep \in SUBSET (1..Len(SortedNames)) :
           /\ Cardinality(keep) <= MaxFiles
           /\ files = Pick(SortedNames, keep)
    /\ InitMain

\* processIbtFile returns a session and the try branch takes it
ProcessFile ==
    /\ pc = "main"
    /\ fileIdx < Len(files)
    /\ \E c \in FileContents(files[fileIdx + 1]) :
           PushResult(Processed(files[fileIdx + 1], c.info, c.times, c.finalBest))
    /\ attempts' = Append(attempts, files[fileIdx + 1])
    /\ UNCHANGED <<runVars, scanVars, reads, aggVars, statVars>>

\* processIbtFile returns early: a lap channel is missing
ProcessFileMissing ==
    /\ pc = "main"
    /\ fileIdx < Len(files)
    /\ \E info \in {InfoCarA, InfoCarBWet} :
           PushResult(ProcessedMissing(files[fileIdx + 1], info))
    /\ attempts' = Append(attempts, files[fileIdx + 1])
    /\ UNCHANGED <<runVars, scanVars, reads, aggVars, statVars>>

\* processIbtFile throws and the catch branch takes it
ProcessFileThrows ==
    /\ pc = "main"
    /\ fileIdx < Len(files)
    /\ PushError(files[fileIdx + 1])
    /\ attempts' = Append(attempts, files[fileIdx + 1])
    /\ UNCHANGED <<runVars, scanVars, reads, aggVars, statVars>>

AggNext ==
    \/ ProcessFile
    \/ ProcessFileMissing
    \/ ProcessFileThrows
    \/ StartAggregation
    \/ FoldSession
    \/ StatsDateCar
    \/ StatsCar
    \/ WriteOutput

AggSpec == InitAgg /\ [][AggNext]_vars

\* ========================================================= Helper calls
\* One call of a statistics helper on a list of lap times: the state holds
\* the argument list, the best time handed to the filter, and what the call
\* returned under the name of the helper.
StatTimes ==
    {Secs(60), Secs(80), Secs(81), Secs(90), Secs(91), Secs(92), Secs(99),
     HalfSecs(207), Secs(183), Secs(199), Secs(201), Secs(217)}

StatBests == {Infinity, Num(Secs(80)), Num(Secs(90))}

\* the lists of at most n lap times
RECURSIVE StatLists(_)
StatLists(n) ==
    IF n = 0 THEN {<<>>}
    ELSE LET shorter == StatLists(n - 1)
         IN  shorter \cup {Append(l, Num(t)) : l \in {x \in shorter : Len(x) = n - 1},
                                              t \in StatTimes}

InitStat ==
    /\ suite = "stat"
    /\ files = <<>>
    /\ fileIdx = 0
    /\ pc = "call"
    /\ sessions = <<>>
    /\ totalLaps = 0
    /\ bestOverallTime = Infinity
    /\ bestOverallFile = ""
    /\ reads = {}
    /\ attempts = <<>>
    /\ NoLocals
    /\ NoAggregates
    /\ statValues \in StatLists(MaxLaps)
    /\ statBest \in StatBests
    /\ statOut = <<>>

\* [...values].sort(...) sorts a copy: the argument is as it was
ArgumentAfterSort(values) == values

HelperReturns(out) ==
    /\ pc = "call"
    /\ pc' = "returned"
    /\ statOut' = out
    /\ UNCHANGED <<runVars, fileIdx, mainVars, scanVars, reads, attempts, aggVars, statBest>>

CallMedian ==
    /\ HelperReturns([median |-> calculateMedian(statValues)])
    /\ statValues' = ArgumentAfterSort(statValues)

CallStdDev ==
    /\ HelperReturns([stdDev |-> calculateStdDev(statValues)])
    /\ UNCHANGED statValues

CallConsistencyScore ==
    /\ HelperReturns([score |-> calculateConsistencyScore(statValues)])
    /\ UNCHANGED statValues

\* lapTimes.filter(...) builds a new list
CallFilter ==
    /\ HelperReturns([filtered |-> filterOutlierLaps(statValues, statBest)])
    /\ UNCHANGED statValues

StatNext ==
    \/ CallMedian
    \/ CallStdDev
    \/ CallConsistencyScore
    \/ CallFilter

StatSpec == InitStat /\ [][StatNext]_vars

\* ======================================================== Formatter calls
\* One call of formatLapTime: the state holds the argument and what the
\* call returned.  The arguments are times on the grid of 0.0001 s around
\* every whole minute up to and past the limit, times in ticks, and the
\* values that are not times.
FormatOffsets ==
    {0, 1, 4, 5, 6, 625, 1875, 54321, 99995, 100000, 599994, 599995, 599996, 599999}

FormatSteps ==
    {m * 60 * StepsPerSecond + o : m \in 0..10, o \in FormatOffsets}
        \cup {-StepsPerSecond, 700 * StepsPerSecond}

FormatInputs ==
    {Fine(k) : k \in FormatSteps}
        \cup {Num(Secs(n)) : n \in {-1, 0, 59, 60, 125, 600, 601}}
        \cup {Null, NaN, Infinity, NegInfinity, NotSet}

InitFormat ==
    /\ suite = "format"
    /\ files = <<>>
    /\ fileIdx = 0
    /\ pc = "call"
    /\ sessions = <<>>
    /\ totalLaps = 0
    /\ bestOverallTime = Infinity
    /\ bestOverallFile = ""
    /\ reads = {}
    /\ attempts = <<>>
    /\ NoLocals
    /\ NoAggregates
    /\ \E x \in FormatInputs : statValues = <<x>>
    /\ statBest = Null
    /\ statOut = <<>>

CallFormat ==
    /\ HelperReturns([formatted |-> formatLapTime(statValues[1])])
    /\ UNCHANGED statValues

FormatNext == CallFormat

FormatSpec == InitFormat /\ [][FormatNext]_vars

\* ================================================================= Claims
\* the channel values of sample k of the file being scanned
LapAt(k) == readVar(buffer, lapVar, bufOffset + k * bufLen)
LastLapTimeAt(k) == readVar(buffer, lastLapTimeVar, bufOffset + k * bufLen)

\* a step of the for loop: the only step from "scan" to "scan"
LoopStep == pc = "scan" /\ pc' = "scan"

\* processIbtFile returns a result that the main loop pushes
Returned == pc \in {"decode", "scan"} /\ pc' = "main" /\ sessions'[Len(sessions')].decoded

LastSession == sessions[Len(sessions)]

InWindow(x) == x.t = "num" /\ 0 < x.v /\ x.v < MaxValidLapSeconds * TicksPerSecond

Sentinel == Num(-TicksPerSecond)

\* C1 as stated: at sample i a LapRecord is emitted exactly when the lap
\* counter differs from previousLapNumber, previousLapNumber is not the
\* sentinel -1 and 0 < lastLapTime < 600; the record carries
\* previousLapNumber and lastLapTime, and previousLapNumber becomes the
\* current lap after every sample.
C1_Original ==
    [][LoopStep =>
        LET lap == LapAt(sampleIdx)
            t == LastLapTimeAt(sampleIdx)
        IN  /\ prevLap' = lap
            /\ IF StrictNeq(lap, prevLap) /\ prevLap /= Sentinel /\ InWindow(t)
               THEN laps' = Append(laps, [lapNumber |-> prevLap, timeSeconds |-> t])
               ELSE laps' = laps]_vars

\* C1 amended: the second condition is previousLapNumber >= 0 (as
\* JavaScript compares), which excludes the sentinel and also a negative or
\* NaN lap counter left by the previous sample.
C1_EmitRule ==
    [][LoopStep =>
        LET lap == LapAt(sampleIdx)
            t == LastLapTimeAt(sampleIdx)
            prevOk == prevLap.t = "null" \/ (prevLap.t = "num" /\ prevLap.v >= 0)
        IN  /\ prevLap' = lap
            /\ IF StrictNeq(lap, prevLap) /\ prevOk /\ InWindow(t)
               THEN laps' = Append(laps, [lapNumber |-> prevLap, timeSeconds |-> t])
               ELSE laps' = laps]_vars

\* a scan that emitted at one boundary and emitted nothing at other samples
C1_Witness ==
    /\ pc = "scan"
    /\ sampleIdx = 3
    /\ Len(laps) = 1
    /\ laps[1].lapNumber = LapAt(0)
    /\ laps[1].timeSeconds = LastLapTimeAt(1)

RecordsInWindow(lapList) ==
    \A k \in 1..Len(lapList) : InWindow(lapList[k].timeSeconds)

\* C2: every LapRecord of the scan in progress and of every SessionResult
\* has 0 < timeSeconds < 600; a sample whose lastLapTime is outside the
\* window emits nothing, and a session returned by the scan carries no
\* error note.
C2_ValidRecords ==
    /\ [](/\ RecordsInWindow(laps)
          /\ \A k \in 1..Len(sessions) : RecordsInWindow(sessions[k].laps))
    /\ [][(LoopStep /\ ~InWindow(LastLapTimeAt(sampleIdx))) => laps' = laps]_vars
    /\ [][(pc = "scan" /\ Returned) =>
            sessions'[Len(sessions')].error = ""]_vars

\* a returned session in which a boundary with an out-of-window time (600 s)
\* was passed over and another boundary was recorded
C2_Witness ==
    /\ pc = "scan"
    /\ sampleIdx = 3
    /\ StrictNeq(LapAt(1), LapAt(0)) /\ LapAt(0).v >= 0
    /\ LastLapTimeAt(1) = Num(MaxValidLapSeconds * TicksPerSecond)
    /\ Len(laps) = 1
    /\ laps[1].timeSeconds = LastLapTimeAt(2)

RECURSIVE MinTime(_)
MinTime(lapList) ==
    IF Len(lapList) = 1 THEN lapList[1].timeSeconds.v
    ELSE LET m == MinTime(Tail(lapList))
         IN  IF lapList[1].timeSeconds.v < m THEN lapList[1].timeSeconds.v ELSE m

\* the value of the LapBestLapTime channel at the last sample, when the
\* channel is declared and there is a last sample
FinalBestValue ==
    IF bestLapTimeVar.found /\ totalSamples.t = "num" /\ totalSamples.v > 0
    THEN readVar(buffer, bestLapTimeVar, bufOffset + (totalSamples.v - 1) * bufLen)
    ELSE Null

\* C3: when the scan returns, the session's best time is the value of the
\* LapBestLapTime channel at the last sample exactly when that value is
\* positive and strictly below the minimum of the emitted records;
\* otherwise it is that minimum (none without records); the laps of the
\* result are the emitted records.
C3_PostPass ==
    [][(pc = "scan" /\ Returned) =>
        LET r == sessions'[Len(sessions')]
            fb == FinalBestValue
            adopt == /\ fb.t = "num" /\ fb.v > 0
                     /\ (laps /= <<>> => fb.v < MinTime(laps))
        IN  /\ r.laps = laps
            /\ r.totalLaps = Len(laps)
            /\ r.bestLapTime =
                 IF adopt THEN fb
                 ELSE IF laps = <<>> THEN Null ELSE Num(MinTime(laps))]_vars

\* a session whose best time was adopted from the channel, below its laps
C3_Witness ==
    /\ pc = "main"
    /\ sessions /= <<>>
    /\ LastSession.decoded
    /\ Len(LastSession.laps) >= 1
    /\ LastSession.bestLapTime.t = "num"
    /\ LastSession.bestLapTime.v < MinTime(LastSession.laps)

\* the header and the descriptor table of the file just read can be read
TableReadable ==
    /\ parseIbtHeader(buffer).t /= "threw"
    /\ parseVarHeaders(buffer, parseIbtHeader(buffer).numVars,
                       parseIbtHeader(buffer).varHeaderOffset).t /= "threw"

DeclaredNames ==
    LET h == parseIbtHeader(buffer)
        vs == parseVarHeaders(buffer, h.numVars, h.varHeaderOffset)
    IN  {vs.list[k].name : k \in 1..Len(vs.list)}

\* C4: when "Lap" or "LapLastLapTime" is not among the declared channels,
\* the file's entry is a SessionResult with no laps, no best lap time and
\* an error note, no sample was read, and the main loop moves on to the
\* next file.
C4_MissingChannel ==
    [][(/\ pc = "decode"
        /\ TableReadable
        /\ (NameLap \notin DeclaredNames \/ NameLapLastLapTime \notin DeclaredNames))
       => LET r == sessions'[Len(sessions')]
          IN  /\ Len(sessions') = Len(sessions) + 1
              /\ r.decoded
              /\ r.fileName = fileName
              /\ r.laps = <<>>
              /\ r.totalLaps = 0
              /\ r.bestLapTime = Null
              /\ r.error = MissingLapVariables
              /\ reads' = {}
              /\ pc' = "main"
              /\ fileIdx' = fileIdx + 1]_vars

\* a file without one of the channels, followed by a file that was scanned
C4_Witness ==
    /\ Len(sessions) >= 2
    /\ sessions[1].decoded
    /\ sessions[1].error = MissingLapVariables
    /\ sessions[2].error = ""
    /\ Len(sessions[2].laps) >= 1

\* C5: every file is handed to processIbtFile once, in order, and leaves
\* exactly one entry carrying its name, whether it decoded or not; at the
\* end totalSessions is the number of input files.
C5_OneEntryPerFile ==
    /\ Len(sessions) = fileIdx
    /\ attempts = SubSeq(files, 1, IF pc \in {"decode", "scan"} THEN fileIdx + 1 ELSE fileIdx)
    /\ \A k \in 1..Len(sessions) : sessions[k].fileName = files[k]
    /\ pc = "done" => TotalSessions = Len(files)

\* a finished run whose first file failed to decode and whose second file
\* produced laps
C5_Witness ==
    /\ pc = "done"
    /\ Len(files) >= 2
    /\ ~sessions[1].decoded
    /\ sessions[2].decoded
    /\ Len(sessions[2].laps) >= 1

\* the smallest buffer parseIbtHeader can read
MinHeaderSize == BufLenFieldPos + 4

\* C6 as stated: a file shorter than the header, or whose descriptor table
\* would end past the end of the buffer, yields a per-file error and never
\* a SessionResult.
C6_MalformedRejected ==
    [][(/\ pc = "decode"
        /\ \/ Len(buffer) < MinHeaderSize
           \/ parseIbtHeader(buffer).varHeaderOffset
                + parseIbtHeader(buffer).numVars * VAR_HEADER_SIZE > Len(buffer))
       => /\ pc' = "main"
          /\ ~sessions'[Len(sessions')].decoded]_vars

\* C7 as stated: every file that was read is eventually finished with, and
\* the run reaches its end.
C7_Terminates ==
    /\ (pc = "decode") ~> (pc = "main")
    /\ <>(pc = "done")

\* floor((bufferLength - bufOffset) / bufLen) for a stride other than zero
IsFloorOfRegion(q) ==
    LET d == Len(buffer) - bufOffset
    IN  IF bufLen > 0 THEN q * bufLen <= d /\ d < (q + 1) * bufLen
        ELSE q * bufLen >= d /\ d > (q + 1) * bufLen

RegionEnd == bufOffset + totalSamples.v * bufLen

\* C8 as stated: totalSamples is the floor, it is never negative, the loop
\* visits 0..totalSamples-1 once each in increasing order, and no sample
\* start used lies at or beyond sampleDataOffset + totalSamples*stride.
C8_Original ==
    /\ [](pc = "scan" =>
            /\ totalSamples.t = "num"
            /\ totalSamples.v >= 0
            /\ IsFloorOfRegion(totalSamples.v))
    /\ [][(pc = "decode" /\ pc' = "scan") => sampleIdx' = 0]_vars
    /\ [][LoopStep => sampleIdx < totalSamples.v /\ sampleIdx' = sampleIdx + 1]_vars
    /\ [][(pc = "scan" /\ Returned) => sampleIdx = totalSamples.v]_vars
    /\ [][pc = "scan" =>
            \A r \in reads' : r.idx < totalSamples.v /\ r.start < RegionEnd]_vars

\* the header describes a sample region: a positive stride and a start
\* that is not past the end of the file
ValidRegion == bufLen > 0 /\ bufOffset <= Len(buffer)

\* C8 amended: totalSamples is the floor whenever the stride is not zero;
\* for a positive stride and a start not past the end of the file it is
\* never negative, the loop visits 0, 1, 2, ... once each in increasing
\* order and never an index >= totalSamples, it has visited exactly
\* 0..totalSamples-1 when the file yields a SessionResult, and no sample
\* start used by the loop or the post-pass lies at or beyond
\* sampleDataOffset + totalSamples*stride.
C8_SampleRange ==
    /\ [](pc = "scan" =>
            /\ bufLen /= 0 => (totalSamples.t = "num" /\ IsFloorOfRegion(totalSamples.v))
            /\ ValidRegion => totalSamples.v >= 0)
    /\ [][(pc = "decode" /\ pc' = "scan") => sampleIdx' = 0]_vars
    /\ [][(LoopStep /\ ValidRegion) =>
            sampleIdx < totalSamples.v /\ sampleIdx' = sampleIdx + 1]_vars
    /\ [][(pc = "scan" /\ Returned /\ ValidRegion) => sampleIdx = totalSamples.v]_vars
    /\ [][(pc = "scan" /\ ValidRegion) =>
            \A r \in reads' : r.idx < totalSamples.v /\ r.start < RegionEnd]_vars

\* a scan of a well-described region that has visited all of two or more
\* samples
C8_Witness ==
    /\ pc = "scan"
    /\ ValidRegion
    /\ totalSamples.v >= 2
    /\ sampleIdx = totalSamples.v
    /\ {r.idx : r \in reads} = 0..(totalSamples.v - 1)

\* C9 as stated: every read of the sample reader lies inside the sample it
\* was handed: it starts at or after sampleStart and ends at or before
\* sampleStart + stride.
C9_ReadsInsideSample ==
    [][pc = "scan" =>
        \A r \in reads' : r.pos >= r.start /\ r.pos + r.width <= r.start + bufLen]_vars

\* C10 as stated: for each of the six type tags 0..5 the sample reader of
\* the pipeline returns a value when the read is inside the buffer, and
\* null for any other tag.
C10_SixTags ==
    (pc = "scan" /\ InLoop) =>
        \A v \in {lapVar, lastLapTimeVar} :
            LET x == readVar(buffer, v, SampleOffset(sampleIdx))
            IN  IF v.type \in 0..5
                THEN InRange(buffer, SampleOffset(sampleIdx) + v.dataOffset, 8)
                        => x.t \in {"num", "nan"}
                ELSE x = Null

\* ------------------------------------------------- Claims on the aggregates
\* the sessions among the first n that have a date and a car and no rain
DrySessions(n) ==
    {i \in 1..n : HasDateAndCar(sessions[i]) /\ sessions[i].precipitation <= 0}

\* the dry sessions of a date+car key, and of a car
DateCarMembers(key, n) == {i \in DrySessions(n) : Key(sessions[i]) = key}
CarMembers(car, n) == {i \in DrySessions(n) : sessions[i].car = car}

\* the laps of the sessions of M, the fastest of their best laps and their
\* lap times in the order of the sessions
RECURSIVE LapSum(_)
LapSum(M) == IF M = {} THEN 0 ELSE sessions[Max(M)].totalLaps + LapSum(M \ {Max(M)})

RECURSIVE LapTimesIn(_)
LapTimesIn(M) ==
    IF M = {} THEN <<>> ELSE LapTimesIn(M \ {Max(M)}) \o LapTimesOf(sessions[Max(M)])

BestIn(M) ==
    LET B == {sessions[i].bestLapTime.v : i \in {j \in M : Truthy(sessions[j].bestLapTime)}}
    IN  IF B = {} THEN Infinity ELSE Num(Min(B))

\* the entry is what the sessions of M alone give
MadeOf(entry, M, count) ==
    /\ M /= {}
    /\ entry[count] = Cardinality(M)
    /\ entry.totalLaps = LapSum(M)
    /\ entry.bestTime = BestIn(M)
    /\ "allLapTimes" \in DOMAIN entry => entry.allLapTimes = LapTimesIn(M)

\* C11: with the exclusion of wet sessions on, every date+car entry and
\* every car entry is exactly what the sessions without rain of its key
\* give (session count, lap count, lap times, best time), and it exists
\* only if there is such a session: a session with precipitation above 0
\* adds nothing to any of them, wherever it stands among the sessions. It
\* is still one of the sessions the run counts, one per file processed. A
\* session is wet only if its precipitation is above 0, and a session text
\* without the TrackPrecipitation field is not wet.
C11_WetSessionsContributeNothing ==
    /\ pc \in {"aggregate", "done"} =>
           /\ \A k \in 1..Len(byDateAndCar) :
                  MadeOf(byDateAndCar[k],
                         DateCarMembers(byDateAndCar[k].key, foldIdx), "sessions")
           /\ \A k \in 1..Len(carStats) :
                  MadeOf(carStats[k], CarMembers(carStats[k].key, foldIdx), "totalSessions")
    /\ pc \in {"main", "aggregate", "done"} => Len(sessions) = fileIdx
    /\ \A i \in 1..Len(sessions) :
           "isWet" \in DOMAIN sessions[i] =>
               (sessions[i].isWet <=> sessions[i].precipitation > 0)
    /\ ~extractSessionInfo(InfoCarA, 0, Len(InfoCarA)).isWet
    /\ ~extractSessionInfo(InfoCarADry, 0, Len(InfoCarADry)).isWet

\* the run is over and a wet session shares its date and car with a dry one
C11_Witness ==
    /\ pc = "done"
    /\ wetSessionsSkipped > 0
    /\ \E i, j \in 1..Len(sessions) :
           /\ HasDateAndCar(sessions[i]) /\ HasDateAndCar(sessions[j])
           /\ sessions[i].isWet /\ ~sessions[j].isWet
           /\ i < j
           /\ Key(sessions[i]) = Key(sessions[j])

\* --------------------------------------------- Claims on the helper calls
\* C12 as stated: the filter keeps, in their order, exactly the laps whose
\* time is at most bestTime * (1 + 0.15), a lap exactly at that bound
\* included (103.5 s for a best of 90 s), and leaves its input as it was.
C12_KeepsUpToBound ==
    (pc = "returned" /\ "filtered" \in DOMAIN statOut /\ statBest.t = "num") =>
        statOut.filtered =
            SelectSeq(statValues, LAMBDA time : 100 * time.v <= 115 * statBest.v)

\* the laps of the sessions of M that the filter keeps when each session is
\* filtered by its own best lap, in the order of the sessions
RECURSIVE CleanWithinSessions(_)
CleanWithinSessions(M) ==
    IF M = {} THEN <<>>
    ELSE CleanWithinSessions(M \ {Max(M)})
         \o filterOutlierLaps(LapTimesOf(sessions[Max(M)]), sessions[Max(M)].bestLapTime)

\* the sessions an entry of the stats passes was folded from
MembersOf(c) ==
    IF c.scope = "dateCar" THEN DateCarMembers(c.key, Len(sessions))
    ELSE CarMembers(c.key, Len(sessions))

\* C13 as stated: the clean set of a group holds exactly the laps that are
\* within the margin of the best lap of the session that produced them, so
\* no other session of the group decides whether a lap is clean.
C13_FilteredWithinSession ==
    \A k \in 1..Len(cleaned) : cleaned[k].times = CleanWithinSessions(MembersOf(cleaned[k]))

\* the fastest of a non-empty list of lap times
Fastest(times) == Num(Min({times[i].v : i \in 1..Len(times)}))

\* C14 as stated: an entry with a non-empty clean set has for bestTime the
\* fastest clean lap, which is also the fastest lap of the group before
\* filtering; the filter never removes the fastest raw lap, so an entry
\* with a raw lap has a clean lap.
C14_BestIsFastestLap ==
    \A k \in 1..Len(cleaned) :
        /\ Len(cleaned[k].times) > 0 =>
               /\ cleaned[k].bestTime = Fastest(cleaned[k].times)
               /\ cleaned[k].bestTime = Fastest(cleaned[k].allTimes)
        /\ Len(cleaned[k].allTimes) > 0 => Len(cleaned[k].times) > 0

\* the entries whose statistics have been computed
StatsDone(map) == {k \in 1..Len(map) : "totalLapsClean" \in DOMAIN map[k]}

\* a statistic that has a value
Defined(x) == x.t \in {"num", "half"}

\* C15 as stated: an entry whose clean set is empty has None for bestTime,
\* medianTime, slowestTime, range and consistencyScore (for a car entry:
\* those of them it has); an entry whose clean set is not empty has
\* bestTime, medianTime, slowestTime and range defined.
C15_EmptyCleanSetHasNoStatistics ==
    /\ \A k \in StatsDone(byDateAndCar) :
           LET e == byDateAndCar[k]
           IN  IF e.totalLapsClean = 0
               THEN /\ JsonNumber(e.bestTime) = Null
                    /\ e.medianTime = Null /\ e.slowestTime = Null
                    /\ e.range = Null /\ e.consistencyScore = Null
               ELSE /\ Defined(e.bestTime) /\ Defined(e.medianTime)
                    /\ Defined(e.slowestTime) /\ Defined(e.range)
    /\ \A k \in StatsDone(carStats) :
           LET e == carStats[k]
           IN  IF e.totalLapsClean = 0
               THEN /\ JsonNumber(e.bestTime) = Null
                    /\ e.medianTime = Null /\ e.consistencyScore = Null
               ELSE Defined(e.bestTime) /\ Defined(e.medianTime)

\* the k-th smallest of the values (ticks), counted with repetitions
OrderStatistic(values, k) ==
    CHOOSE x \in {values[i].v : i \in 1..Len(values)} :
        /\ Cardinality({i \in 1..Len(values) : values[i].v < x}) < k
        /\ Cardinality({i \in 1..Len(values) : values[i].v <= x}) >= k

\* twice a median, in ticks
Twice(x) == IF x.t = "half" THEN x.v ELSE 2 * x.v

\* C16: a call of calculateMedian returns None for the empty list; for a
\* list of odd length, in any order, the middle one of its values in
\* ascending order; for a list of even length the arithmetic mean of the
\* two middle ones ([90, 91, 92] and [90, 92] both give 91); and the list
\* handed in is the same after the call.
C16_Median ==
    [][(pc = "call" /\ pc' = "returned" /\ "median" \in DOMAIN statOut') =>
        LET n == Len(statValues)
            out == statOut'.median
        IN  /\ statValues' = statValues
            /\ n = 0 => out = Null
            /\ (n > 0 /\ n % 2 = 1) =>
                   /\ out.t = "num"
                   /\ out.v = OrderStatistic(statValues, (n + 1) \div 2)
            /\ (n > 0 /\ n % 2 = 0) =>
                   /\ Defined(out)
                   /\ Twice(out) = OrderStatistic(statValues, n \div 2)
                                    + OrderStatistic(statValues, n \div 2 + 1)
            /\ {statValues[i] : i \in 1..n} = {Num(Secs(90)), Num(Secs(92))} /\ n = 2
                   => out = Num(Secs(91))
            /\ {statValues[i] : i \in 1..n} = {Num(Secs(90)), Num(Secs(91)), Num(Secs(92))}
               /\ n = 3
                   => out = Num(Secs(91))]_vars

\* the median of two different times handed in in descending order
C16_Witness ==
    /\ pc = "returned"
    /\ "median" \in DOMAIN statOut
    /\ Len(statValues) = 2
    /\ statValues[1].v > statValues[2].v
    /\ Twice(statOut.median) = statValues[1].v + statValues[2].v

\* n * (sum of squares) - (sum)^2 of the values in ticks: with the
\* population standard deviation, CV is the square root of this over the sum
Spread(values) ==
    LET n == Len(values)
        S == SumTicks(values)
    IN  n * SumTicks([i \in 1..n |-> Num(values[i].v * values[i].v)]) - S * S

\* k <= 100 * (1 - 5 * CV) + 1/2, that is 1000 * sqrt(Spread) <= (201 - 2k) * sum
ScoreAtLeast(values, k) ==
    Spread(values) <= SquareOverMillion((201 - 2 * k) * SumTicks(values))

\* k is 100 * (1 - 5 * CV) clamped to [0, 100] and rounded, halves upwards
IsRoundedScore(values, k) ==
    /\ k \in 0..100
    /\ k = 0 \/ ScoreAtLeast(values, k)
    /\ k = 100 \/ ~ScoreAtLeast(values, k + 1)

\* the lists the stats passes hand over have been through the filter:
\* every time is within 15% of the fastest
WithinMargin(values) ==
    \A i, j \in 1..Len(values) : 100 * values[i].v <= 115 * values[j].v

\* C17: a call of calculateConsistencyScore on two or more lap times
\* returns an integer from 0 to 100; 100 when all times are equal, 50 when
\* CV (population standard deviation over mean) is 0.10, 0 when CV is 0.20
\* or more; and for the lists a clean set can be (all times within 15% of
\* the fastest) the result is 100 * (1 - 5 * CV), clamped to [0, 100] and
\* rounded to the nearest integer.
C17_ConsistencyScore ==
    (pc = "returned" /\ "score" \in DOMAIN statOut /\ Len(statValues) >= 2) =>
        LET k == statOut.score.v \div TicksPerSecond
            R == Spread(statValues)
            S == SumTicks(statValues)
        IN  /\ statOut.score = Num(k * TicksPerSecond)
            /\ k \in 0..100
            /\ R = 0 => k = 100
            /\ 100 * R = S * S => k = 50
            /\ 25 * R >= S * S => k = 0
            /\ WithinMargin(statValues) => IsRoundedScore(statValues, k)

\* the score of laps of 199 s and 201 s, which is 97.5 before rounding
C17_Witness ==
    /\ pc = "returned"
    /\ "score" \in DOMAIN statOut
    /\ statValues = <<Num(Secs(199)), Num(Secs(201))>>
    /\ WithinMargin(statValues)
    /\ statOut.score = Num(98 * TicksPerSecond)

\* C18 as stated: an entry with exactly one clean lap has the consistency
\* score 100.
C18_SingleLapFullScore ==
    /\ \A k \in StatsDone(byDateAndCar) :
           byDateAndCar[k].totalLapsClean = 1 =>
               byDateAndCar[k].consistencyScore = Num(100 * TicksPerSecond)
    /\ \A k \in StatsDone(carStats) :
           carStats[k].totalLapsClean = 1 =>
               carStats[k].consistencyScore = Num(100 * TicksPerSecond)

\* C18 amended: an entry with exactly one clean lap has no consistency
\* score (None), in the date+car entries and in the car entries alike.
C18_SingleLapNoScore ==
    /\ \A k \in StatsDone(byDateAndCar) :
           byDateAndCar[k].totalLapsClean = 1 => byDateAndCar[k].consistencyScore = Null
    /\ \A k \in StatsDone(carStats) :
           carStats[k].totalLapsClean = 1 => carStats[k].consistencyScore = Null

\* the statistics of a date+car entry with one clean lap have been computed
C18_Witness ==
    \E k \in StatsDone(byDateAndCar) :
        /\ byDateAndCar[k].totalLapsClean = 1
        /\ byDateAndCar[k].medianTime.t = "num"
        /\ byDateAndCar[k].medianTime.v > 0

\* the entry the k-th call of the stats passes worked on
EntryOf(k) ==
    IF k <= Len(byDateAndCar) THEN byDateAndCar[k] ELSE carStats[k - Len(byDateAndCar)]

\* the lap counts of the entry of the k-th call are those of its lists
CountsAgree(k) ==
    LET e == EntryOf(k)
    IN  /\ e.totalLapsRaw = Len(LapTimesIn(MembersOf(cleaned[k])))
        /\ e.totalLapsRaw = Len(cleaned[k].allTimes)
        /\ e.totalLapsClean = Len(cleaned[k].times)
        /\ 0 <= e.totalLapsClean /\ e.totalLapsClean <= e.totalLapsRaw

NoOutlierIn(M) ==
    \A i \in M : \A j \in 1..Len(sessions[i].laps) :
        100 * sessions[i].laps[j].timeSeconds.v <= 115 * sessions[i].bestLapTime.v

\* C20 as stated: the dry sessions that share a date and a car are folded
\* into one entry, whose session count is their number and whose bestTime
\* is the least of their best lap times, whatever the sessions of other
\* keys are; and when none of their laps is an outlier its totalLapsClean
\* is the number of their laps (laps [91, 92] and [90.5] give bestTime
\* 90.5, totalLapsClean 3 and 2 sessions).
C20_FoldOfSharedKey ==
    /\ \A j, k \in 1..Len(byDateAndCar) :
           j /= k => byDateAndCar[j].key /= byDateAndCar[k].key
    /\ \A i \in DrySessions(foldIdx) :
           \E k \in 1..Len(byDateAndCar) : byDateAndCar[k].key = Key(sessions[i])
    /\ \A k \in 1..Len(byDateAndCar) :
           LET e == byDateAndCar[k]
               M == DateCarMembers(e.key, foldIdx)
           IN  /\ e.sessions = Cardinality(M)
               /\ e.bestTime = BestIn(M)
               /\ ("totalLapsClean" \in DOMAIN e /\ NoOutlierIn(M)) =>
                      e.totalLapsClean = LapSum(M)

\* ------------------------------------------------ Claims on the formatter
\* the text before and after the colon of a formatted time
ColonAt(text) == Min({i \in 1..Len(text) : text[i] = CodeColon})
MinutesText(text) == SubSeq(text, 1, ColonAt(text) - 1)
SecondsText(text) == SubSeq(text, ColonAt(text) + 1, Len(text))

\* SS.sss: two digits, the point, three digits
IsSecondsField(text) ==
    /\ Len(text) = 6
    /\ text[3] = CodePoint
    /\ \A i \in {1, 2, 4, 5, 6} : IsDigit(text[i])

\* the seconds field read as a number of thousandths of a second
ThousandthsOf(text) == ParseInt(SubSeq(text, 1, 2) \o SubSeq(text, 4, 6))

\* the argument of the call is a time the formatter renders
Renderable(x) ==
    /\ x.t \in {"num", "fine"}
    /\ x.v > 0
    /\ x.v <= MaxFormatSeconds * UnitOf(x)

\* what is left of x after its whole minutes, in units of x
UnitsPastMinute(x) == x.v % (60 * UnitOf(x))

\* the seconds field is the remainder to three decimals: it is within half
\* a thousandth of it
IsRoundedRemainder(text, x) ==
    LET d == ThousandthsOf(text) * UnitOf(x) - 1000 * UnitsPastMinute(x)
    IN  2 * d <= UnitOf(x) /\ -2 * d <= UnitOf(x)

TwoFiveFourThreeTwo == <<50, 58, 48, 53, 46, 52, 51, 50>>

\* C23: the formatter returns null for every time <= 0, every time > 600
\* and every value that is not a time (-1 and 700 among them); for every
\* other time it returns "M:SS.sss", the minutes being floor(seconds / 60)
\* without padding and the seconds field the remainder to three decimals
\* with two integer digits; 125.4321 is formatted as "2:05.432".
C23_Formatter ==
    pc = "returned" /\ "formatted" \in DOMAIN statOut =>
        LET x == statValues[1]
            out == statOut.formatted
        IN  /\ ~Renderable(x) => out.t = "null"
            /\ Renderable(x) =>
                 /\ out.t = "str"
                 /\ MinutesText(out.v) = Decimal(x.v \div (60 * UnitOf(x)))
                 /\ IsSecondsField(SecondsText(out.v))
                 /\ IsRoundedRemainder(SecondsText(out.v), x)
            /\ x = Fine(1254321) => out.v = TwoFiveFourThreeTwo

\* C23 witness: the call on 125.4321 has returned a text
C23_Witness ==
    /\ pc = "returned"
    /\ "formatted" \in DOMAIN statOut
    /\ statValues[1] = Fine(1254321)
    /\ statOut.formatted.t = "str"

\* C30: for every time 0 < t <= 600 on the grid of 0.0001 s the seconds
\* field of the formatted text lies between 00.000 and 59.999, and the
\* formatted minutes and seconds differ from t by at most 0.0005 s.
C30_SecondsBelowSixty ==
    pc = "returned" /\ "formatted" \in DOMAIN statOut =>
        LET x == statValues[1]
            out == statOut.formatted
        IN  x.t = "fine" /\ Renderable(x) =>
                /\ out.t = "str"
                /\ IsSecondsField(SecondsText(out.v))
                /\ ThousandthsOf(SecondsText(out.v)) <= 59999
                /\ LET shown == 60000 * ParseInt(MinutesText(out.v))
                                  + ThousandthsOf(SecondsText(out.v))
                       d == 10 * shown - x.v
                   IN  d <= 5 /\ -d <= 5

\* --------------------------------------------- Claims on the decoded names
\* the slots parseVarHeaders has parsed in a buffer: position and name
ParsedSlots(buf) ==
    LET header == parseIbtHeader(buf)
        table == IF header.t = "threw" THEN Threw
                 ELSE parseVarHeaders(buf, header.numVars, header.varHeaderOffset)
    IN  IF table.t = "threw" THEN {}
        ELSE {[pos |-> header.varHeaderOffset + (i - 1) * VAR_HEADER_SIZE,
               name |-> table.list[i].name] : i \in 1..Len(table.list)}

\* the bytes of the name are the bytes of the buffer from byte 16 of the slot on
IsPrefixOfNameField(buf, slot) ==
    \A k \in 1..Len(slot.name) :
        /\ slot.pos + NameFieldStart + k <= Len(buf)
        /\ slot.name[k] = buf[slot.pos + NameFieldStart + k]

\* the name ends where the name field ends, the buffer ends, or a NUL stands
StopsAtFirstEnd(buf, slot) ==
    LET next == slot.pos + NameFieldStart + Len(slot.name)
    IN  \/ Len(slot.name) = NameFieldEnd - NameFieldStart
        \/ next >= Len(buf)
        \/ buf[next + 1] = 0

\* C25: for every descriptor slot the name is read from bytes 16..47 of the
\* slot only and ends at the first NUL or at the end of that range: it has
\* at most 32 bytes, holds no NUL, and holds no byte of the description
\* field, of the next slot or from beyond the end of the buffer.
C25_NameWithinField ==
    pc \in {"decode", "scan"} =>
        \A slot \in ParsedSlots(buffer) :
            /\ NameEnd(buffer, slot.pos) \in
                   (slot.pos + NameFieldStart)..(slot.pos + NameFieldEnd)
            /\ Len(slot.name) <= NameFieldEnd - NameFieldStart
            /\ \A k \in 1..Len(slot.name) : slot.name[k] /= 0
            /\ IsPrefixOfNameField(buffer, slot)
            /\ StopsAtFirstEnd(buffer, slot)

\* C25 witness: a scan is under way on a table with a name that fills its
\* field, found to hold no best-lap channel
C25_Witness ==
    /\ pc = "scan"
    /\ ~bestLapTimeVar.found
    /\ \E slot \in ParsedSlots(buffer) : slot.name = LongName

\* ------------------------------------------------ Claims on whole results
\* the post-pass of the call that is returning adopts the channel value: it
\* is positive and below the best of the loop
PostPassAdopts ==
    /\ pc = "scan"
    /\ FinalBestValue.t = "num"
    /\ FinalBestValue.v > 0
    /\ JsLess(FinalBestValue, sessionBestTime)

\* C26: in every result processIbtFile returns, bestLapTime when present is
\* at most the time of every lap of the result; it is absent exactly when
\* no lap was emitted and the post-pass adopted no value; a result with a
\* lap has a bestLapTime.
C26_BestBoundsLaps ==
    [][Returned =>
        LET r == sessions'[Len(sessions')]
            best == r.bestLapTime
        IN  /\ best.t \in {"num", "null"}
            /\ best.t = "num" =>
                 \A i \in 1..Len(r.laps) : best.v <= r.laps[i].timeSeconds.v
            /\ best.t = "null" <=> (r.laps = <<>> /\ ~PostPassAdopts)
            /\ r.laps /= <<>> => best.t = "num"]_vars

\* C26 witness: a result without laps whose best time is the channel value
C26_Witness ==
    /\ pc = "main"
    /\ sessions /= <<>>
    /\ LastSession.decoded
    /\ LastSession.laps = <<>>
    /\ LastSession.bestLapTime.t = "num"

\* ------------------------------------------------ Claims on the fold steps
\* one call of the callback of sessions.forEach
FoldStep == pc = "aggregate" /\ foldIdx' = foldIdx + 1

\* the counter of the entry of a key, 0 when the map has no such entry
CountOf(map, key, count) ==
    IF IndexOf(map, key) = 0 THEN 0 ELSE map[IndexOf(map, key)][count]

KeysOf(map) == {map[i].key : i \in 1..Len(map)}

\* the keys whose counter went up by one, no other counter having changed
IncrementedKeys(before, after, count) ==
    {k \in KeysOf(after) : CountOf(after, k, count) = CountOf(before, k, count) + 1}

OthersUnchanged(before, after, count) ==
    \A k \in KeysOf(before) \cup KeysOf(after) :
        \/ CountOf(after, k, count) = CountOf(before, k, count)
        \/ CountOf(after, k, count) = CountOf(before, k, count) + 1

\* the session holds a text that is not empty under the name
HasText(s, name) == name \in DOMAIN s /\ s[name] /= <<>>

AllDecoded == {i \in 1..Len(sessions) : sessions[i].decoded}

\* the sum of totalLapsRaw over the entries of a map
RECURSIVE RawSum(_)
RawSum(map) == IF map = <<>> THEN 0 ELSE Head(map).totalLapsRaw + RawSum(Tail(map))

BestTimes == {byDateAndCar[i].bestTime : i \in 1..Len(byDateAndCar)}
                 \cup {carStats[i].bestTime : i \in 1..Len(carStats)}

\* C28: totalLaps is the sum of the lap counts and bestOverallTime the
\* least bestLapTime of all decoded sessions, the wet ones included; so
\* bestOverallTime is at most the bestTime of every aggregate, and in the
\* output totalLaps is at least the sum of totalLapsRaw over the car entries.
C28_RunFigures ==
    suite = "agg" =>
        /\ totalLaps = LapSum(AllDecoded)
        /\ bestOverallTime = BestIn(AllDecoded)
        /\ \A best \in BestTimes : ~JsLess(best, bestOverallTime)
        /\ pc = "done" => totalLaps >= RawSum(carStats)

\* C28 witness: the output is written; the fastest session of the run was
\* wet, so the run figures lie strictly beyond those of the aggregates
C28_Witness ==
    /\ pc = "done"
    /\ carStats /= <<>>
    /\ \E i \in AllDecoded :
          /\ IsWetSession(sessions[i])
          /\ sessions[i].bestLapTime = bestOverallTime
    /\ \A best \in BestTimes : JsLess(bestOverallTime, best)
    /\ totalLaps > RawSum(carStats)

\* --------------------------------- Claims on car entries and their dates
\* the date+car entries of a car
EntriesOfCar(car) == {i \in 1..Len(byDateAndCar) : byDateAndCar[i].car = car}

\* the sum of a counter over the date+car entries of I
RECURSIVE SumOver(_, _)
SumOver(I, count) ==
    IF I = {} THEN 0
    ELSE byDateAndCar[Max(I)][count] + SumOver(I \ {Max(I)}, count)

\* the least bestTime of the date+car entries of I
LeastBest(I) ==
    LET B == {byDateAndCar[i].bestTime.v : i \in {j \in I : byDateAndCar[j].bestTime.t = "num"}}
    IN  IF B = {} THEN Infinity ELSE Num(Min(B))

\* C29: once the sessions are folded and the statistics computed, every car
\* entry agrees with the date+car entries of its car: its session count and
\* its totalLapsRaw are the sums of theirs, its bestTime is the least of
\* theirs, and its totalLapsClean is at most the sum of theirs.
C29_CarAgreesWithDates ==
    pc \in {"aggregate", "done"} =>
        \A c \in 1..Len(carStats) :
            LET I == EntriesOfCar(carStats[c].car)
            IN  /\ I /= {}
                /\ carStats[c].totalSessions = SumOver(I, "sessions")
                /\ carStats[c].totalLaps = SumOver(I, "totalLaps")
                /\ carStats[c].bestTime = LeastBest(I)
                /\ pc = "done" =>
                     /\ carStats[c].totalLapsRaw = SumOver(I, "totalLapsRaw")
                     /\ carStats[c].totalLapsClean <= SumOver(I, "totalLapsClean")

\* C29 witness: a car with two dates whose car-wide filter removes a lap
\* that the filter of its date keeps
C29_Witness ==
    /\ pc = "done"
    /\ \E c \in 1..Len(carStats) :
          /\ Cardinality(EntriesOfCar(carStats[c].car)) >= 2
          /\ carStats[c].totalLapsClean
                 < SumOver(EntriesOfCar(carStats[c].car), "totalLapsClean")

\* -------------------------------------------------- Claims on the range
\* the clean times of the entry a statistics step worked on
CleanTimesOf(scope, key) ==
    LET hits == {i \in 1..Len(cleaned) : cleaned[i].scope = scope /\ cleaned[i].key = key}
    IN  cleaned[CHOOSE i \in hits : TRUE].times

SlowestIn(times) == Num(Max({times[i].v : i \in 1..Len(times)}))

\* slowestTime and range as claimed, with the order they imply
RangeAsClaimed(entry, times) ==
    /\ "slowestTime" \in DOMAIN entry
    /\ "range" \in DOMAIN entry
    /\ entry.slowestTime = SlowestIn(times)
    /\ entry.range = Num(entry.slowestTime.v - entry.bestTime.v)
    /\ entry.range.v >= 0

MedianBetween(entry, times) ==
    /\ Twice(Num(entry.bestTime.v)) <= Twice(entry.medianTime)
    /\ Twice(entry.medianTime) <= Twice(SlowestIn(times))

AggregatedKeys == {Key(sessions[i]) : i \in DrySessions(Len(sessions))}
AggregatedCars == {sessions[i].car : i \in DrySessions(Len(sessions))}

RECURSIVE FoldOf(_)
FoldOf(list) ==
    IF list = <<>> THEN [dateCar |-> <<>>, cars |-> <<>>]
    ELSE LET before == FoldOf(SubSeq(list, 1, Len(list) - 1))
             s == list[Len(list)]
         IN  IF HasDateAndCar(s) /\ ~SkipWet(s)
             THEN [dateCar |-> Put(before.dateCar, Key(s), NewDateCar(s), s, "sessions"),
                   cars |-> Put(before.cars, s.car, NewCar(s), s, "totalSessions")]
             ELSE before

DateCarStatsOf(map) ==
    <<>> \o [k \in 1..Len(map) |->
                DateCarStats(map[k], filterOutlierLaps(map[k].allLapTimes, map[k].bestTime))]

CarStatsOf(map) ==
    <<>> \o [k \in 1..Len(map) |->
                CarStats(map[k], filterOutlierLaps(map[k].allLapTimes, map[k].bestTime))]

AggregatesOf(list) ==
    [dailyBests |-> SortStable(DateCarStatsOf(FoldOf(list).dateCar), "dateCar"),
     carStats |-> SortStable(CarStatsOf(FoldOf(list).cars), "sessions")]

\* the sessions in the order p
Reordered(list, p) == <<>> \o [i \in 1..Len(list) |-> list[p[i]]]

\* the function agrees with the steps of the run
AggregatesOfRun ==
    pc = "done" =>
        /\ AggregatesOf(sessions).dailyBests = outputData.dailyBests
        /\ AggregatesOf(sessions).carStats = outputData.carStats

\* C21: the aggregation is independent of the order of the sessions: for
\* every permutation of the sessions of the run, the date+car entries and
\* the car entries with all their fields and the two arrays of the output
\* are the same as those the run produced.
C21_OrderIndependent ==
    pc = "done" =>
        \A p \in Permutations(1..Len(sessions)) :
            /\ AggregatesOf(Reordered(sessions, p)).dailyBests = outputData.dailyBests
            /\ AggregatesOf(Reordered(sessions, p)).carStats = outputData.carStats

====
